---- MODULE Spec2Model ----
(***************************************************************************)
(* Safe Warner: the session state machine and alerting policy of           *)
(* core/health_monitor.py (HealthMonitor), the capture thread of           *)
(* gui/video_thread.py (VideoThread) and the mode / background scheduling  *)
(* of gui/main_window.py (SafeWarnerGUI).                                  *)
(*                                                                         *)
(* The HealthMonitor object is the record `monitor`; each method is an     *)
(* operator from the object (and the value time.time() returns during the  *)
(* call) to the object after the call, so that a method calling another    *)
(* composes as the code does.  Times are whole seconds.                    *)
(***************************************************************************)
EXTENDS Integers, Sequences, FiniteSets, Bags, TLC

VARIABLES
    now,        \* the wall clock, time.time()
    monitor,    \* the HealthMonitor object
    gui,        \* the SafeWarnerGUI object's fields
    threads,    \* the VideoThread objects alive, by identity
    timers,     \* pending QTimer callbacks (a bag)
    hist        \* history of the run: what the claims speak about

vars == <<now, monitor, gui, threads, timers, hist>>

----------------------------------------------------------------------------
(* utils/constants.py *)

NOTIFICATION_COOLDOWN == 30
AUTO_MODE_INTERVAL == 30
SCREEN_TIME_BREAK == 1200

(* The phase length the exercise methods write as the literal 15.0. *)
PHASE_SECONDS == 15

(* time.time() when the HealthMonitor is constructed: seconds since the    *)
(* epoch, far above every interval of the program.                         *)
session_start == 1000

(* Bounds of the model. *)
TimeUnit == 5          \* granularity of the clock, gate and exercise machine
MaxTime == 40          \* seconds explored after construction
MaxRequests == 3       \* direct send_notification requests
MaxAlerts == 4         \* length of session_data['alerts']
FrameStep == 15        \* granularity of the clock where whole frames are processed
FrameMaxTime == 45     \* seconds explored after construction there
MaxFrameAlerts == 3    \* length of session_data['alerts'] there
AppStep == 30          \* granularity of the clock where the whole application runs
AppMaxTime == 90       \* seconds explored after launch there
ScreenFrameSteps == 3  \* clock steps after the screen time threshold
MaxScreenAlerts == 2   \* length of session_data['alerts'] there
MaxHealthAlerts == 2   \* length of session_data['alerts'] where the sensors vary
MaxFailedReads == 2    \* failed cap.read() calls in a row that are counted
MaxAppAlerts == 2      \* length of session_data['alerts'] there
MaxThreads == 2        \* VideoThread objects alive at once

AlertKinds ==
    {"proximity", "posture", "blink_rate", "screen_time", "system_health",
     "eye_exercise"}

Gazes == {"left", "right", "center"}

----------------------------------------------------------------------------
(* dict.get(k, default) and d[k] = v *)

Get(d, k, default) == IF k \in DOMAIN d THEN d[k] ELSE default

Put(d, k, v) == [x \in (DOMAIN d) \cup {k} |-> IF x = k THEN v ELSE d[x]]

Max(a, b) == IF a >= b THEN a ELSE b

----------------------------------------------------------------------------
(* HealthMonitor.__init__ *)

HealthMonitorInit(auto) ==
    [ auto_mode               |-> auto,
      last_break_time         |-> session_start,
      last_notification       |-> << >>,
      alert_stats             |-> [k \in AlertKinds |-> 0],
      eye_exercise_active     |-> FALSE,
      eye_exercise_start_time |-> 0,
      time_left               |-> PHASE_SECONDS,
      exercise_done           |-> FALSE,
      current_phase           |-> "right",
      countdown_active        |-> FALSE,
      last_detection          |-> "center",
      phase_start_time        |-> 0,
      paused_time_left        |-> PHASE_SECONDS,
      auto_mode_last_check    |-> session_start,
      session_data            |-> [ start_time    |-> session_start,
                                    alerts        |-> << >>,
                                    eye_exercises |-> << >>,
                                    mode          |-> IF auto THEN "auto"
                                                             ELSE "manual" ],
      fast_notify_calls       |-> 0,    \* calls made to utils.notifications.fast_notify
      fast_notify_log         |-> << >> ] \* the titles passed to it, in call order

set_auto_mode_StaleMode(m, enabled) ==
    [m EXCEPT !.auto_mode = enabled]

(* HealthMonitor.set_auto_mode *)
set_auto_mode(m, enabled) ==
    [m EXCEPT !.auto_mode = enabled,
              !.session_data.mode = IF enabled THEN "auto" ELSE "manual"]

should_check_auto_mode_Strict(m, t) ==
    IF ~m.auto_mode THEN FALSE
    ELSE t - m.auto_mode_last_check > AUTO_MODE_INTERVAL

(* HealthMonitor.should_check_auto_mode *)
should_check_auto_mode(m, t) ==
    IF ~m.auto_mode THEN FALSE
    ELSE t - m.auto_mode_last_check >= AUTO_MODE_INTERVAL

----------------------------------------------------------------------------
(* The notification cooldown gate *)

should_notify_NoCooldown(m, t, alert_type) == TRUE

should_notify_Strict(m, t, alert_type) ==
    t - Get(m.last_notification, alert_type, 0) > NOTIFICATION_COOLDOWN

(* HealthMonitor.should_notify *)
should_notify(m, t, alert_type) ==
    t - Get(m.last_notification, alert_type, 0) >= NOTIFICATION_COOLDOWN

(* HealthMonitor.send_notification.  fast_notify catches every backend     *)
(* error and returns a flag, so the method's except branch is never taken. *)
send_notification_Prepend(m, t, title, alert_type) ==
    IF ~should_notify(m, t, alert_type) /\ alert_type # "eye_exercise"
    THEN m
    ELSE [m EXCEPT
            !.fast_notify_calls = @ + 1,
            !.fast_notify_log = Append(@, title),
            !.last_notification = Put(@, alert_type, t),
            !.alert_stats[alert_type] = @ + 1,
            !.session_data.alerts =
                <<[type |-> alert_type, title |-> title]>> \o @]

send_notification_StampGated(m, t, title, alert_type) ==
    IF ~should_notify(m, t, alert_type) /\ alert_type # "eye_exercise"
    THEN [m EXCEPT !.last_notification = Put(@, alert_type, t)]
    ELSE [m EXCEPT
            !.fast_notify_calls = @ + 1,
            !.fast_notify_log = Append(@, title),
            !.last_notification = Put(@, alert_type, t),
            !.alert_stats[alert_type] = @ + 1,
            !.session_data.alerts =
                Append(@, [type |-> alert_type, title |-> title])]

send_notification_Rolling(m, t, title, alert_type) ==
    IF ~should_notify(m, t, alert_type) /\ alert_type # "eye_exercise"
    THEN m
    ELSE [m EXCEPT
            !.fast_notify_calls = @ + 1,
            !.fast_notify_log = Append(@, title),
            !.last_notification = Put(@, alert_type, t),
            !.alert_stats[alert_type] = @ + 1,
            !.session_data.alerts =
                Append(IF Len(@) >= 2 THEN Tail(@) ELSE @,
                       [type |-> alert_type, title |-> title])]

send_notification_ExerciseUnlogged(m, t, title, alert_type) ==
    IF ~should_notify(m, t, alert_type) /\ alert_type # "eye_exercise"
    THEN m
    ELSE [m EXCEPT
            !.fast_notify_calls = @ + 1,
            !.fast_notify_log = Append(@, title),
            !.last_notification = Put(@, alert_type, t),
            !.alert_stats[alert_type] = @ + 1,
            !.session_data.alerts =
                IF alert_type = "eye_exercise" THEN @
                ELSE Append(@, [type |-> alert_type, title |-> title])]

send_notification(m, t, title, alert_type) ==
    IF ~should_notify(m, t, alert_type) /\ alert_type # "eye_exercise"
    THEN m
    ELSE [m EXCEPT
            !.fast_notify_calls = @ + 1,
            !.fast_notify_log = Append(@, title),
            !.last_notification = Put(@, alert_type, t),
            !.alert_stats[alert_type] = @ + 1,
            !.session_data.alerts =
                Append(@, [type |-> alert_type, title |-> title])]

(* HealthMonitor.save_session_data: the document json.dump writes, a JSON  *)
(* object with the keys of session_data, each list element by element.     *)
save_session_data(m) ==
    [ start_time    |-> m.session_data.start_time,
      alerts        |-> [i \in 1..Len(m.session_data.alerts) |->
                            m.session_data.alerts[i]],
      eye_exercises |-> [i \in 1..Len(m.session_data.eye_exercises) |->
                            m.session_data.eye_exercises[i]],
      mode          |-> m.session_data.mode ]

----------------------------------------------------------------------------
(* The eye exercise state machine *)

start_eye_exercise_KeepsPhase(m, t) ==
    send_notification(
        [m EXCEPT !.eye_exercise_active = TRUE,
                  !.eye_exercise_start_time = t,
                  !.time_left = PHASE_SECONDS,
                  !.exercise_done = FALSE,
                  !.countdown_active = FALSE,
                  !.phase_start_time = t,
                  !.paused_time_left = PHASE_SECONDS],
        t, "Eye Exercise Time!", "eye_exercise")

start_eye_exercise_TakesBreak(m, t) ==
    send_notification(
        [m EXCEPT !.eye_exercise_active = TRUE,
                  !.eye_exercise_start_time = t,
                  !.time_left = PHASE_SECONDS,
                  !.exercise_done = FALSE,
                  !.current_phase = "right",
                  !.countdown_active = FALSE,
                  !.phase_start_time = t,
                  !.paused_time_left = PHASE_SECONDS,
                  !.last_break_time = t],
        t, "Eye Exercise Time!", "eye_exercise")

(* HealthMonitor.start_eye_exercise *)
start_eye_exercise(m, t) ==
    send_notification(
        [m EXCEPT !.eye_exercise_active = TRUE,
                  !.eye_exercise_start_time = t,
                  !.time_left = PHASE_SECONDS,
                  !.exercise_done = FALSE,
                  !.current_phase = "right",
                  !.countdown_active = FALSE,
                  !.phase_start_time = t,
                  !.paused_time_left = PHASE_SECONDS],
        t, "Eye Exercise Time!", "eye_exercise")

Countdown_KeepPhaseStart(m, t) ==
    LET m1 == IF ~m.countdown_active
              THEN [m EXCEPT !.countdown_active = TRUE,
                             !.time_left = m.paused_time_left]
              ELSE m
        elapsed == t - m1.phase_start_time
    IN  [m1 EXCEPT !.time_left = Max(0, m1.paused_time_left - elapsed)]

Countdown_NoClamp(m, t) ==
    LET m1 == IF ~m.countdown_active
              THEN [m EXCEPT !.countdown_active = TRUE,
                             !.phase_start_time = t,
                             !.time_left = m.paused_time_left]
              ELSE m
        elapsed == t - m1.phase_start_time
    IN  [m1 EXCEPT !.time_left = m1.paused_time_left - elapsed]

(* update_eye_exercise, lines 237-246 and 288-297: the gaze matches the    *)
(* phase; start the countdown if it is not running, then update it.        *)
Countdown(m, t) ==
    LET m1 == IF ~m.countdown_active
              THEN [m EXCEPT !.countdown_active = TRUE,
                             !.phase_start_time = t,
                             !.time_left = m.paused_time_left]
              ELSE m
        elapsed == t - m1.phase_start_time
    IN  [m1 EXCEPT !.time_left = Max(0, m1.paused_time_left - elapsed)]

PauseOrWait_NoSave(m, t, title) ==
    IF m.countdown_active
    THEN send_notification([m EXCEPT !.countdown_active = FALSE],
                           t, title, "eye_exercise")
    ELSE m

PauseOrWait_KeepsCounting(m, t, title) ==
    IF m.countdown_active
    THEN LET left == Max(0, m.paused_time_left - (t - m.phase_start_time))
         IN  send_notification(
                [m EXCEPT !.countdown_active = FALSE,
                          !.time_left = left,
                          !.paused_time_left = left],
                t, title, "eye_exercise")
    ELSE m

PauseOrWait_EveryTick(m, t, title) ==
    send_notification(
        [m EXCEPT !.countdown_active = FALSE,
                  !.paused_time_left = IF m.countdown_active
                                       THEN m.time_left ELSE @],
        t, title, "eye_exercise")

(* update_eye_exercise, lines 264-283 and 326-345: the gaze does not match *)
(* the phase; pause a running countdown and re-prompt, else keep waiting.  *)
PauseOrWait(m, t, title) ==
    IF m.countdown_active
    THEN send_notification(
            [m EXCEPT !.countdown_active = FALSE,
                      !.paused_time_left = m.time_left],
            t, title, "eye_exercise")
    ELSE m

(* update_eye_exercise, the branch current_phase == "right" *)
UpdateRightPhase(m, t, detection) ==
    IF detection = "right"
    THEN LET m1 == Countdown(m, t)
         IN  IF m1.time_left <= 0
             THEN send_notification(
                     [m1 EXCEPT !.current_phase = "left",
                                !.countdown_active = FALSE,
                                !.paused_time_left = PHASE_SECONDS,
                                !.time_left = PHASE_SECONDS],
                     t, "Good! Now look LEFT", "eye_exercise")
             ELSE m1
    ELSE PauseOrWait(m, t, "Keep Looking Right")

UpdateLeftPhase_StaysActive(m, t, detection) ==
    IF detection = "left"
    THEN LET m1 == Countdown(m, t)
         IN  IF m1.time_left <= 0
             THEN LET m2 == [m1 EXCEPT !.exercise_done = TRUE]
                      total_duration == t - m2.eye_exercise_start_time
                      m3 == send_notification(m2, t, "Exercise Complete!",
                                              "eye_exercise")
                      m4 == [m3 EXCEPT !.session_data.eye_exercises =
                                Append(@, [duration |-> total_duration,
                                           success  |-> TRUE])]
                  IN  IF m4.auto_mode
                      THEN [m4 EXCEPT !.auto_mode_last_check = t]
                      ELSE m4
             ELSE m1
    ELSE PauseOrWait(m, t, "Keep Looking Left")

UpdateLeftPhase_PhaseDuration(m, t, detection) ==
    IF detection = "left"
    THEN LET m1 == Countdown(m, t)
         IN  IF m1.time_left <= 0
             THEN LET m2 == [m1 EXCEPT !.eye_exercise_active = FALSE,
                                       !.exercise_done = TRUE]
                      total_duration == t - m2.phase_start_time
                      m3 == send_notification(m2, t, "Exercise Complete!",
                                              "eye_exercise")
                  IN  [m3 EXCEPT !.session_data.eye_exercises =
                          Append(@, [duration |-> total_duration,
                                     success  |-> TRUE])]
             ELSE m1
    ELSE PauseOrWait(m, t, "Keep Looking Left")

UpdateLeftPhase_NoAutoReset(m, t, detection) ==
    IF detection = "left"
    THEN LET m1 == Countdown(m, t)
         IN  IF m1.time_left <= 0
             THEN LET m2 == [m1 EXCEPT !.eye_exercise_active = FALSE,
                                       !.exercise_done = TRUE]
                      total_duration == t - m2.eye_exercise_start_time
                      m3 == send_notification(m2, t, "Exercise Complete!",
                                              "eye_exercise")
                  IN  [m3 EXCEPT !.session_data.eye_exercises =
                          Append(@, [duration |-> total_duration,
                                     success  |-> TRUE])]
             ELSE m1
    ELSE PauseOrWait(m, t, "Keep Looking Left")

(* update_eye_exercise, the branch current_phase == "left" *)
UpdateLeftPhase(m, t, detection) ==
    IF detection = "left"
    THEN LET m1 == Countdown(m, t)
         IN  IF m1.time_left <= 0
             THEN LET m2 == [m1 EXCEPT !.eye_exercise_active = FALSE,
                                       !.exercise_done = TRUE]
                      total_duration == t - m2.eye_exercise_start_time
                      m3 == send_notification(m2, t, "Exercise Complete!",
                                              "eye_exercise")
                      m4 == [m3 EXCEPT !.session_data.eye_exercises =
                                Append(@, [duration |-> total_duration,
                                           success  |-> TRUE])]
                  IN  IF m4.auto_mode
                      THEN [m4 EXCEPT !.auto_mode_last_check = t]
                      ELSE m4
             ELSE m1
    ELSE PauseOrWait(m, t, "Keep Looking Left")

(* HealthMonitor.update_eye_exercise *)
update_eye_exercise(m, t, detection) ==
    IF ~m.eye_exercise_active \/ m.exercise_done THEN m
    ELSE IF m.current_phase = "right" THEN UpdateRightPhase(m, t, detection)
    ELSE IF m.current_phase = "left" THEN UpdateLeftPhase(m, t, detection)
    ELSE m

(* Python's None, as get_eye_exercise_status returns it *)
None == [none |-> TRUE]

get_eye_exercise_status_NullWhenPaused(m, t) ==
    IF ~m.eye_exercise_active \/ ~m.countdown_active THEN None
    ELSE [ phase          |-> m.current_phase,
           remaining_time |-> m.time_left,
           total_elapsed  |-> t - m.eye_exercise_start_time,
           paused         |-> ~m.countdown_active,
           exercise_done  |-> m.exercise_done ]

(* HealthMonitor.get_eye_exercise_status *)
get_eye_exercise_status(m, t) ==
    IF ~m.eye_exercise_active THEN None
    ELSE [ phase          |-> m.current_phase,
           remaining_time |-> m.time_left,
           total_elapsed  |-> t - m.eye_exercise_start_time,
           paused         |-> ~m.countdown_active,
           exercise_done  |-> m.exercise_done ]

(* HealthMonitor.check_screen_time *)
check_screen_time(m, t) == t - m.last_break_time > SCREEN_TIME_BREAK

----------------------------------------------------------------------------
(* One captured frame, as the metric extractors see it: whether the face   *)
(* mesh found a face and, if so, the gaze bucket, check_proximity and      *)
(* check_blink_rate; whether the pose model found landmarks and, if so,    *)
(* analyze_posture's is_tilted and is_slouching; and whether               *)
(* check_system_health reports a temperature above 70.                     *)

NoFace == [face |-> FALSE, gaze |-> "center", proximity |-> FALSE,
           low_blink |-> FALSE]

NoPose == [pose |-> FALSE, tilted |-> FALSE, slouching |-> FALSE]

Faces ==
    {NoFace} \cup [face : {TRUE}, gaze : Gazes, proximity : BOOLEAN,
                   low_blink : BOOLEAN]

Poses ==
    {NoPose} \cup [pose : {TRUE}, tilted : BOOLEAN, slouching : BOOLEAN]

(* process_frame, lines 526-529: the auto-mode poll *)
AutoModePoll(m, t) ==
    IF m.auto_mode /\ should_check_auto_mode(m, t)
    THEN [m EXCEPT !.auto_mode_last_check = t]
    ELSE m

(* process_frame, lines 571-577 and 605-610: start an exercise when the    *)
(* poll interval has passed and the frame shows an issue.                  *)
AutoTrigger(m, t, issue) ==
    IF m.auto_mode /\ ~m.eye_exercise_active /\ should_check_auto_mode(m, t)
    THEN IF issue
         THEN [start_eye_exercise(m, t) EXCEPT !.last_break_time = t]
         ELSE m
    ELSE m

FaceBlock_NoFacePauses(m, f, t) ==
    IF ~f.face
    THEN IF m.eye_exercise_active
         THEN update_eye_exercise(m, t, "center") ELSE m
    ELSE
    LET m1 == [m EXCEPT !.last_detection = f.gaze]
        m2 == IF m1.eye_exercise_active
              THEN update_eye_exercise(m1, t, f.gaze) ELSE m1
        m3 == IF f.proximity /\ should_notify(m2, t, "proximity")
                 /\ ~m2.eye_exercise_active
              THEN send_notification(m2, t, "Move Back Slightly", "proximity")
              ELSE m2
        m4 == IF f.low_blink /\ should_notify(m3, t, "blink_rate")
                 /\ ~m3.eye_exercise_active
              THEN send_notification(m3, t, "Rest Your Eyes", "blink_rate")
              ELSE m3
    IN  AutoTrigger(m4, t,
                    f.proximity \/ f.low_blink \/ check_screen_time(m4, t))

FaceBlock_AlertsDuringExercise(m, f, t) ==
    IF ~f.face THEN m
    ELSE
    LET m1 == [m EXCEPT !.last_detection = f.gaze]
        m2 == IF m1.eye_exercise_active
              THEN update_eye_exercise(m1, t, f.gaze) ELSE m1
        m3 == IF f.proximity /\ should_notify(m2, t, "proximity")
              THEN send_notification(m2, t, "Move Back Slightly", "proximity")
              ELSE m2
        m4 == IF f.low_blink /\ should_notify(m3, t, "blink_rate")
                 /\ ~m3.eye_exercise_active
              THEN send_notification(m3, t, "Rest Your Eyes", "blink_rate")
              ELSE m3
    IN  AutoTrigger(m4, t,
                    f.proximity \/ f.low_blink \/ check_screen_time(m4, t))

(* process_frame, lines 531-581: the face block *)
FaceBlock(m, f, t) ==
    IF ~f.face THEN m
    ELSE
    LET m1 == [m EXCEPT !.last_detection = f.gaze]
        m2 == IF m1.eye_exercise_active
              THEN update_eye_exercise(m1, t, f.gaze) ELSE m1
        m3 == IF f.proximity /\ should_notify(m2, t, "proximity")
                 /\ ~m2.eye_exercise_active
              THEN send_notification(m2, t, "Move Back Slightly", "proximity")
              ELSE m2
        m4 == IF f.low_blink /\ should_notify(m3, t, "blink_rate")
                 /\ ~m3.eye_exercise_active
              THEN send_notification(m3, t, "Rest Your Eyes", "blink_rate")
              ELSE m3
    IN  AutoTrigger(m4, t,
                    f.proximity \/ f.low_blink \/ check_screen_time(m4, t))

(* process_frame, lines 583-614: the pose block *)
PoseBlock(m, p, t) ==
    IF ~p.pose \/ m.eye_exercise_active THEN m
    ELSE
    LET m1 == IF p.tilted /\ should_notify(m, t, "posture")
              THEN send_notification(m, t, "Adjust Your Posture", "posture")
              ELSE m
        m2 == IF p.slouching /\ should_notify(m1, t, "posture")
              THEN send_notification(m1, t, "Sit Up Straight", "posture")
              ELSE m1
    IN  AutoTrigger(m2, t, p.tilted \/ p.slouching)

ScreenTimeBlock_AnyMode(m, t) ==
    IF check_screen_time(m, t) /\ should_notify(m, t, "screen_time")
       /\ ~m.eye_exercise_active
    THEN send_notification(m, t, "Time for a Break!", "screen_time")
    ELSE m

(* process_frame, lines 616-624: the screen time check *)
ScreenTimeBlock(m, t) ==
    IF check_screen_time(m, t) /\ should_notify(m, t, "screen_time")
       /\ ~m.eye_exercise_active /\ ~m.auto_mode
    THEN send_notification(m, t, "Time for a Break!", "screen_time")
    ELSE m

(* process_frame, lines 626-639: the system health check *)
SystemHealthBlock(m, hot, t) ==
    IF t % 10 = 0 /\ ~m.eye_exercise_active /\ hot
       /\ should_notify(m, t, "system_health")
    THEN send_notification(m, t, "System Running Hot", "system_health")
    ELSE m

(* HealthMonitor.process_frame.  The clock is read as t0 by the poll, as   *)
(* t1 after face_mesh.process and as t2 after pose.process.                *)
process_frame(m, f, p, hot, t0, t1, t2) ==
    SystemHealthBlock(
        ScreenTimeBlock(
            PoseBlock(FaceBlock(AutoModePoll(m, t0), f, t1), p, t2),
            t2),
        hot, t2)

----------------------------------------------------------------------------
(* History of the run.  `hist` is written by the actions below and read    *)
(* only by the properties; no operation of the program depends on it.      *)

HistInit ==
    [ op          |-> "init",   \* the operation that ran last
      requests    |-> << >>,    \* direct send_notification requests, in order
      edge        |-> "none",   \* what the last tick did to the countdown
      pure        |-> FALSE,    \* the ticks since the start read right.. left..
      r_first     |-> 0,        \* first "right" tick of such a run
      l_first     |-> 0,        \* first "left" tick of such a run
      cum_right   |-> 0,        \* seconds between consecutive "right" ticks, RIGHT phase
      prev_d      |-> "none",   \* the previous accepted tick since the start
      prev_t      |-> 0,
      tl_at_pause |-> -1,       \* time_left at the tick that paused this phase
      ex_at_start |-> 0,        \* len(eye_exercises) when the exercise started
      frame_alert |-> FALSE,    \* an alert signal in the frame a capture loop read last
      failed_reads |-> 0 ]      \* cap.read() calls in a row that returned ret = False

(* No window: the HealthMonitor is driven by a direct caller. *)
GuiNone == [ auto_mode_active |-> FALSE ]

(* What a start_eye_exercise call does to the history. *)
HistStart(h, m) ==
    [h EXCEPT !.op = "start_eye_exercise",
              !.edge = "start",
              !.pure = TRUE, !.r_first = 0, !.l_first = 0,
              !.cum_right = 0, !.prev_d = "none", !.prev_t = 0,
              !.tl_at_pause = -1,
              !.ex_at_start = Len(m.session_data.eye_exercises)]

(* What the call update_eye_exercise(d) at time t does to the history;     *)
(* m is the monitor before the call and m2 the monitor after it.  A run is *)
(* pure while its ticks read: "right" ticks spanning PHASE_SECONDS, then   *)
(* "left" ticks.  The tick times are kept only while the run is pure or    *)
(* in its RIGHT phase, where the properties read them.                     *)
HistTick(h, m, m2, t, d) ==
    IF ~m.eye_exercise_active \/ m.exercise_done
    THEN [h EXCEPT !.op = "update_eye_exercise", !.edge = "ignored"]
    ELSE
    LET matching == d = m.current_phase
        moved == m2.current_phase # m.current_phase \/ m2.exercise_done
        edge == IF matching
                THEN IF moved THEN "complete"
                     ELSE IF m.countdown_active THEN "count"
                     ELSE IF h.tl_at_pause # -1 THEN "resume" ELSE "begin"
                ELSE IF m.countdown_active THEN "pause" ELSE "wait"
        spanned == h.r_first # 0 /\ h.prev_t - h.r_first >= PHASE_SECONDS
        isR == d = "right" /\ h.l_first = 0
        isL == d = "left" /\ (h.l_first # 0 \/ spanned)
        pure == h.pure /\ (isR \/ isL)
        keep == pure \/ m2.current_phase = "right"
    IN  [h EXCEPT
            !.op = "update_eye_exercise",
            !.edge = edge,
            !.pure = pure,
            !.r_first = IF ~pure THEN 0 ELSE IF isR /\ @ = 0 THEN t ELSE @,
            !.l_first = IF ~pure THEN 0 ELSE IF isL /\ @ = 0 THEN t ELSE @,
            !.cum_right = IF m.current_phase = "right" /\ d = "right"
                             /\ h.prev_d = "right"
                          THEN @ + (t - h.prev_t) ELSE @,
            !.prev_d = IF keep THEN d ELSE "none",
            !.prev_t = IF keep THEN t ELSE 0,
            !.tl_at_pause = IF moved THEN -1
                            ELSE IF edge = "pause" THEN m.time_left ELSE @]

----------------------------------------------------------------------------
(* Time passes. *)
AdvanceBy(step, horizon) ==
    /\ now + step <= session_start + horizon
    /\ now' = now + step
    /\ UNCHANGED <<monitor, gui, threads, timers, hist>>

Advance == AdvanceBy(TimeUnit, MaxTime)

AdvanceFrame == AdvanceBy(FrameStep, FrameMaxTime)

(* A HealthMonitor as its constructor leaves it, before any caller.        *)
InitCore ==
    /\ now = session_start
    /\ \E a \in BOOLEAN : monitor = HealthMonitorInit(a)
    /\ gui = GuiNone
    /\ threads = << >>
    /\ timers = EmptyBag
    /\ hist = HistInit

----------------------------------------------------------------------------
(* SpecNotify: a caller of HealthMonitor.send_notification.                *)

NotifyKinds == {"proximity", "posture", "eye_exercise"}

SendNotification(k) ==
    /\ Len(hist.requests) < MaxRequests
    /\ monitor' = send_notification(monitor, now, "requested", k)
    /\ hist' = [hist EXCEPT
            !.op = "send_notification",
            !.requests = Append(@,
                [ type |-> k, t |-> now,
                  calls |-> monitor'.fast_notify_calls - monitor.fast_notify_calls,
                  records |-> Len(monitor'.session_data.alerts)
                              - Len(monitor.session_data.alerts) ])]
    /\ UNCHANGED <<now, gui, threads, timers>>

NextNotify ==
    \/ Advance
    \/ \E k \in NotifyKinds : SendNotification(k)

SpecNotify == InitCore /\ [][NextNotify]_vars

----------------------------------------------------------------------------
(* SpecExercise: a caller of start_eye_exercise and update_eye_exercise.   *)

StartEyeExercise ==
    /\ Len(monitor.session_data.alerts) < MaxAlerts
    /\ monitor' = start_eye_exercise(monitor, now)
    /\ hist' = HistStart(hist, monitor)
    /\ UNCHANGED <<now, gui, threads, timers>>

UpdateEyeExercise(d) ==
    /\ monitor' = update_eye_exercise(monitor, now, d)
    /\ Len(monitor'.session_data.alerts) <= MaxAlerts
    /\ hist' = HistTick(hist, monitor, monitor', now, d)
    /\ UNCHANGED <<now, gui, threads, timers>>

NextExercise ==
    \/ Advance
    \/ StartEyeExercise
    \/ \E d \in Gazes : UpdateEyeExercise(d)

SpecExercise == InitCore /\ [][NextExercise]_vars

----------------------------------------------------------------------------
(* SpecFrame: a caller of set_auto_mode, start_eye_exercise and            *)
(* process_frame.  A frame may cross one clock step in either of the two   *)
(* landmark models.                                                        *)

Drifts == {<<0, 0>>, <<FrameStep, 0>>, <<0, FrameStep>>}

Quiet(g) ==
    [face |-> TRUE, gaze |-> g, proximity |-> FALSE, low_blink |-> FALSE]

Issue(px, lb) ==
    [face |-> TRUE, gaze |-> "center", proximity |-> px, low_blink |-> lb]

Pose(ti, sl) == [pose |-> TRUE, tilted |-> ti, slouching |-> sl]

(* The frames fed to process_frame: <<face, pose, hot>>.  No face and no   *)
(* pose; a face with each gaze and no issue; each issue alone; both        *)
(* posture issues without a face; every issue at once.                     *)
Frames ==
    { <<NoFace, NoPose, FALSE>>,
      <<Quiet("center"), NoPose, FALSE>>,
      <<Quiet("right"), NoPose, FALSE>>,
      <<Quiet("left"), NoPose, FALSE>>,
      <<Issue(TRUE, FALSE), NoPose, FALSE>>,
      <<Issue(FALSE, TRUE), NoPose, FALSE>>,
      <<Quiet("center"), Pose(TRUE, FALSE), FALSE>>,
      <<Quiet("center"), Pose(FALSE, TRUE), FALSE>>,
      <<NoFace, Pose(TRUE, TRUE), FALSE>>,
      <<Quiet("center"), Pose(FALSE, FALSE), TRUE>>,
      <<Issue(TRUE, TRUE), Pose(TRUE, TRUE), TRUE>> }

SetAutoMode(b) ==
    /\ monitor.auto_mode # b
    /\ monitor' = set_auto_mode(monitor, b)
    /\ UNCHANGED <<now, gui, threads, timers, hist>>

ProcessFrame(f, p, hot, d1, d2) ==
    /\ now + d1 + d2 <= session_start + FrameMaxTime
    /\ monitor' = process_frame(monitor, f, p, hot, now, now + d1, now + d1 + d2)
    /\ Len(monitor'.session_data.alerts) <= MaxFrameAlerts
    /\ now' = now + d1 + d2
    /\ UNCHANGED <<gui, threads, timers, hist>>

UserStartExercise ==
    /\ Len(monitor.session_data.alerts) < MaxFrameAlerts
    /\ monitor' = start_eye_exercise(monitor, now)
    /\ UNCHANGED <<now, gui, threads, timers, hist>>

NextFrame ==
    \/ AdvanceFrame
    \/ \E b \in BOOLEAN : SetAutoMode(b)
    \/ UserStartExercise
    \/ \E fr \in Frames, d \in Drifts :
          ProcessFrame(fr[1], fr[2], fr[3], d[1], d[2])

SpecFrame == InitCore /\ [][NextFrame]_vars

----------------------------------------------------------------------------
(* Properties of the cooldown gate (SpecNotify) *)

Requests == hist.requests

CooldownPairs ==
    { <<i, j>> \in (1..Len(Requests)) \X (1..Len(Requests)) :
        /\ i < j
        /\ Requests[i].type = Requests[j].type
        /\ Requests[i].type # "eye_exercise"
        /\ Requests[j].t - Requests[i].t < NOTIFICATION_COOLDOWN }

ExerciseRequestsAlwaysDeliver ==
    \A i \in 1..Len(Requests) :
        Requests[i].type = "eye_exercise" =>
            Requests[i].calls = 1 /\ Requests[i].records = 1

(* C1, as claimed: for every kind K other than eye_exercise, ANY two       *)
(* send_notification(K) requests less than NOTIFICATION_COOLDOWN apart     *)
(* produce exactly one notifier call and exactly one alert record; every   *)
(* eye_exercise request produces a call and a record.                      *)
C1_AnyTwoRequestsYieldExactlyOne ==
    /\ ExerciseRequestsAlwaysDeliver
    /\ \A p \in CooldownPairs :
          /\ Requests[p[1]].calls + Requests[p[2]].calls = 1
          /\ Requests[p[1]].records + Requests[p[2]].records = 1

(* C1, amended: of two send_notification(K) requests less than             *)
(* NOTIFICATION_COOLDOWN apart, K not eye_exercise, at most one is         *)
(* accepted (one notifier call and one alert record, none when dropped),   *)
(* and exactly one, the earlier, when the earlier request is accepted;     *)
(* every eye_exercise request produces a call and a record.                *)
C1_CooldownAdmitsAtMostOne ==
    /\ ExerciseRequestsAlwaysDeliver
    /\ \A p \in CooldownPairs :
          LET a == Requests[p[1]]
              b == Requests[p[2]]
          IN  /\ a.calls = a.records /\ b.calls = b.records
              /\ a.calls + b.calls <= 1
              /\ a.calls = 1 => a.calls + b.calls = 1

(* C1 witness: a proximity request is delivered, a second one less than    *)
(* the cooldown later is dropped, and an eye_exercise request at the same  *)
(* instant as an earlier delivery is delivered.                            *)
C1_Witness ==
    /\ \E p \in CooldownPairs :
          Requests[p[1]].calls = 1 /\ Requests[p[2]].calls = 0
    /\ \E i \in 1..Len(Requests) :
          Requests[i].type = "eye_exercise" /\ Requests[i].calls = 1
    /\ monitor.fast_notify_calls = 2
    /\ Len(monitor.session_data.alerts) = 2

----------------------------------------------------------------------------
(* Properties of the exercise state machine (SpecExercise) *)

(* C2, as claimed: start_eye_exercise() while an exercise is active        *)
(* changes none of current_phase, time_left, paused_time_left,             *)
(* countdown_active, eye_exercise_start_time, phase_start_time and the     *)
(* alert ledger.                                                           *)
C2_StartWhileActiveIsNoOp ==
    [][ (StartEyeExercise /\ monitor.eye_exercise_active
            /\ ~monitor.exercise_done)
        => /\ monitor'.current_phase = monitor.current_phase
           /\ monitor'.time_left = monitor.time_left
           /\ monitor'.paused_time_left = monitor.paused_time_left
           /\ monitor'.countdown_active = monitor.countdown_active
           /\ monitor'.eye_exercise_start_time = monitor.eye_exercise_start_time
           /\ monitor'.phase_start_time = monitor.phase_start_time
           /\ monitor'.session_data.alerts = monitor.session_data.alerts ]_vars

LastExercise ==
    monitor.session_data.eye_exercises[Len(monitor.session_data.eye_exercises)]

(* C5: after start_eye_exercise(), once the "right" ticks span             *)
(* PHASE_SECONDS the machine is in phase "left" with time_left = 15 and    *)
(* the countdown stopped; once the "left" ticks that follow span           *)
(* PHASE_SECONDS the exercise is done and inactive, and exactly one        *)
(* exercise record was appended, with success = true and duration = the    *)
(* completing tick's time minus the start time.                            *)
C5_RightThenLeftCompletes ==
    hist.pure =>
      /\ (hist.r_first # 0 /\ hist.l_first = 0
            /\ hist.prev_t - hist.r_first >= PHASE_SECONDS)
         => /\ monitor.eye_exercise_active /\ ~monitor.exercise_done
            /\ monitor.current_phase = "left"
            /\ monitor.time_left = PHASE_SECONDS
            /\ ~monitor.countdown_active
      /\ (hist.l_first # 0 /\ hist.prev_t - hist.l_first >= PHASE_SECONDS)
         => /\ monitor.exercise_done /\ ~monitor.eye_exercise_active
            /\ Len(monitor.session_data.eye_exercises) = hist.ex_at_start + 1
            /\ LastExercise.success = TRUE
            /\ LastExercise.duration
                 = hist.prev_t - monitor.eye_exercise_start_time

(* C5 witness: the nominal run, completed 30 s after its start. *)
C5_Witness ==
    /\ hist.pure /\ hist.l_first # 0
    /\ hist.l_first - hist.r_first = PHASE_SECONDS
    /\ hist.prev_t - hist.l_first = PHASE_SECONDS
    /\ monitor.exercise_done
    /\ Len(monitor.session_data.eye_exercises) = 1
    /\ LastExercise.duration = 2 * PHASE_SECONDS

(* C6: the RIGHT phase is not completed while the time spent between       *)
(* consecutive "right" ticks adds up to less than PHASE_SECONDS; and the   *)
(* first matching tick after a pause leaves time_left at the value it had  *)
(* at the tick that paused the countdown.                                  *)
C6_PauseKeepsRemainingTime ==
    /\ ((monitor.eye_exercise_active \/ monitor.exercise_done)
            /\ hist.cum_right < PHASE_SECONDS)
       => monitor.current_phase = "right" /\ ~monitor.exercise_done
    /\ hist.edge = "resume"
       => monitor.countdown_active /\ monitor.time_left = hist.tl_at_pause

(* C6 witness: right, center, right in the RIGHT phase, resumed part way. *)
C6_Witness ==
    /\ hist.edge = "resume"
    /\ monitor.current_phase = "right"
    /\ hist.cum_right > 0 /\ hist.cum_right < PHASE_SECONDS
    /\ monitor.time_left = PHASE_SECONDS - hist.cum_right
    /\ now > hist.prev_t - 1 /\ hist.prev_d = "right"

----------------------------------------------------------------------------
(* Properties of process_frame (SpecFrame) *)

(* The number of exercises started so far: every start_eye_exercise call   *)
(* appends one "Eye Exercise Time!" alert.                                 *)
StartCount(m) ==
    Cardinality({ i \in 1..Len(m.session_data.alerts) :
                    m.session_data.alerts[i].title = "Eye Exercise Time!" })

AnyIssue(m, f, p, t) ==
    \/ f.face /\ (f.proximity \/ f.low_blink)
    \/ p.pose /\ (p.tilted \/ p.slouching)
    \/ check_screen_time(m, t)

(* C4, as claimed: in AUTO mode with no exercise active, a tick that       *)
(* begins with now - auto_mode_last_check >= auto_mode_interval and shows  *)
(* proximity, low blink rate, screen time, tilt or slouching starts        *)
(* exactly one exercise and sets last_break_time to the time of the tick.  *)
C4_DuePollStartsOneExercise ==
    [][ \A fr \in Frames, d \in Drifts :
          ( /\ ProcessFrame(fr[1], fr[2], fr[3], d[1], d[2])
            /\ monitor.auto_mode /\ ~monitor.eye_exercise_active
            /\ now - monitor.auto_mode_last_check >= AUTO_MODE_INTERVAL
            /\ AnyIssue(monitor, fr[1], fr[2], now) )
          => /\ StartCount(monitor') = StartCount(monitor) + 1
             /\ monitor'.eye_exercise_active
             /\ monitor'.last_break_time >= now
             /\ monitor'.last_break_time <= now' ]_vars

----------------------------------------------------------------------------
(* The application: SafeWarnerGUI (gui), its VideoThread objects (threads) *)
(* and the pending QTimer.singleShot / QTimer callbacks (timers).          *)
(* Handlers are operators on a world w = [monitor, gui, threads, timers].  *)

World == [monitor |-> monitor, gui |-> gui, threads |-> threads,
          timers |-> timers]

(* SafeWarnerGUI.__init__ and init_ui.  pc and caller hold the position of *)
(* the GUI thread inside VideoThread.stop() and the handler that called    *)
(* stop_camera: a Qt slot runs to completion before the next is delivered. *)
SafeWarnerGUIInit ==
    [ auto_mode_active   |-> FALSE,
      background_mode    |-> FALSE,
      is_camera_active   |-> FALSE,
      video_thread       |-> 0,        \* 0 stands for None
      hidden             |-> FALSE,    \* hide() / show()
      mode_group_visible |-> TRUE,
      eye_exercise_button_enabled |-> FALSE,
      pc                 |-> "idle",
      caller             |-> "none" ]

(* VideoThread.__init__ followed by QThread.start(): run() is at line 21 *)
VideoThreadInit == [pc |-> "l21", running |-> FALSE, cap |-> "None"]

Timer(cb, due) == [cb |-> cb, due |-> due, stale |-> FALSE]

singleShot(tms, tm) == tms (+) SetToBag({tm})

FreeIds(th) == (1..MaxThreads) \ DOMAIN th

(* A VideoThread whose run() has returned and which the GUI no longer      *)
(* references is gone.                                                     *)
Collect(th, g) ==
    [i \in { j \in DOMAIN th : th[j].pc # "done" \/ g.video_thread = j }
        |-> th[i]]

(* SafeWarnerGUI.start_camera, with MediaPipe installed *)
start_camera(w) ==
    LET id == CHOOSE i \in FreeIds(w.threads) :
                  \A j \in FreeIds(w.threads) : i <= j
        g  == [w.gui EXCEPT !.video_thread = id,
                            !.is_camera_active = TRUE,
                            !.eye_exercise_button_enabled = TRUE]
    IN  [w EXCEPT !.gui = g,
                  !.threads = Collect(Put(w.threads, id, VideoThreadInit), g)]

(* SafeWarnerGUI.schedule_next_check *)
schedule_next_check(w, t) ==
    [w EXCEPT !.timers =
        singleShot(@, Timer("wake_up_for_check", t + AUTO_MODE_INTERVAL))]

(* stop_camera lines 460-466, then what the calling handler does after     *)
(* stop_camera returns: switch_to_background_mode lines 294-300.           *)
AfterStop(w, t) ==
    LET g  == [w.gui EXCEPT !.video_thread = 0,
                            !.is_camera_active = FALSE,
                            !.eye_exercise_button_enabled = FALSE,
                            !.pc = "idle", !.caller = "none"]
        w1 == [w EXCEPT !.gui = g, !.threads = Collect(w.threads, g)]
    IN  IF w.gui.caller = "switch_to_background_mode"
        THEN schedule_next_check([w1 EXCEPT !.gui.hidden = TRUE], t)
        ELSE w1

(* SafeWarnerGUI.stop_camera called by `caller`: with a video_thread the   *)
(* GUI thread enters VideoThread.stop() at line 48.                        *)
stop_camera(w, t, caller) ==
    IF w.gui.video_thread # 0
    THEN [w EXCEPT !.gui.pc = "l48", !.gui.caller = caller]
    ELSE AfterStop([w EXCEPT !.gui.caller = caller], t)

(* SafeWarnerGUI.switch_to_background_mode *)
switch_to_background_mode(w, t) ==
    IF w.gui.background_mode THEN w
    ELSE stop_camera([w EXCEPT !.gui.background_mode = TRUE], t,
                     "switch_to_background_mode")

(* SafeWarnerGUI.check_user_distance *)
check_user_distance(t) == t - session_start > 3

(* SafeWarnerGUI.has_active_alerts *)
has_active_alerts == FALSE

(* SafeWarnerGUI.check_background_operation *)
check_background_operation(w, t) ==
    IF ~w.gui.auto_mode_active \/ ~w.gui.is_camera_active THEN w
    ELSE IF w.monitor.auto_mode /\ ~w.monitor.eye_exercise_active
            /\ check_user_distance(t) /\ ~has_active_alerts
         THEN switch_to_background_mode(w, t)
         ELSE w

(* SafeWarnerGUI.try_background_after_start *)
try_background_after_start(w, t) ==
    IF ~w.gui.auto_mode_active \/ ~w.gui.is_camera_active THEN w
    ELSE IF check_user_distance(t) /\ ~has_active_alerts
         THEN switch_to_background_mode(w, t)
         ELSE w

(* SafeWarnerGUI.complete_exercise_cycle *)
complete_exercise_cycle(w, t) ==
    IF w.gui.auto_mode_active /\ ~w.gui.background_mode
    THEN switch_to_background_mode(w, t)
    ELSE w

wake_up_for_check_StaysBackground(w, t) ==
    IF ~w.gui.auto_mode_active THEN w
    ELSE
    LET w1 == [w EXCEPT !.gui.hidden = FALSE,
                        !.monitor.auto_mode_last_check = t - AUTO_MODE_INTERVAL]
        w2 == start_camera(w1)
    IN  [w2 EXCEPT !.timers =
            singleShot(@, Timer("perform_wake_check_and_exercise", t + 2))]

wake_up_for_check_NoRewind(w, t) ==
    IF ~w.gui.auto_mode_active THEN w
    ELSE
    LET w1 == [w EXCEPT !.gui.background_mode = FALSE,
                        !.gui.hidden = FALSE,
                        !.monitor.auto_mode_last_check = t]
        w2 == start_camera(w1)
    IN  [w2 EXCEPT !.timers =
            singleShot(@, Timer("perform_wake_check_and_exercise", t + 2))]

(* SafeWarnerGUI.wake_up_for_check *)
wake_up_for_check(w, t) ==
    IF ~w.gui.auto_mode_active THEN w
    ELSE
    LET w1 == [w EXCEPT !.gui.background_mode = FALSE,
                        !.gui.hidden = FALSE,
                        !.monitor.auto_mode_last_check = t - AUTO_MODE_INTERVAL]
        w2 == start_camera(w1)
    IN  [w2 EXCEPT !.timers =
            singleShot(@, Timer("perform_wake_check_and_exercise", t + 2))]

(* SafeWarnerGUI.perform_wake_check_and_exercise *)
perform_wake_check_and_exercise(w, t) ==
    IF check_user_distance(t)
    THEN [w EXCEPT !.monitor = start_eye_exercise(@, t)]
    ELSE w

(* SafeWarnerGUI.start_camera_auto_mode *)
start_camera_auto_mode(w, t) ==
    LET w1 == [w EXCEPT !.gui.auto_mode_active = TRUE,
                        !.gui.mode_group_visible = FALSE,
                        !.monitor.auto_mode_last_check = t]
        w2 == start_camera(w1)
    IN  [w2 EXCEPT !.timers =
            singleShot(@, Timer("try_background_after_start", t + 3))]

(* SafeWarnerGUI.show_normal *)
show_normal(w) ==
    [w EXCEPT !.gui.background_mode = FALSE, !.gui.hidden = FALSE]

(* toggle_mode leaves the wake timers it scheduled earlier pending: there  *)
(* is no handle to a QTimer.singleShot.  `stale` records, for the          *)
(* properties only, that auto mode was turned off after the timer was set. *)
MarkStale(tms) ==
    LET S == BagToSet(tms)
        mark(tm) == IF tm.cb = "wake_up_for_check"
                    THEN [tm EXCEPT !.stale = TRUE] ELSE tm
        T == { mark(tm) : tm \in S }
    IN  [x \in T |->
            LET pre == { tm \in S : mark(tm) = x }
                Sum[P \in SUBSET pre] ==
                    IF P = {} THEN 0
                    ELSE LET y == CHOOSE y \in P : TRUE
                         IN  tms[y] + Sum[P \ {y}]
            IN  Sum[pre]]

(* SafeWarnerGUI.toggle_mode *)
toggle_mode(w) ==
    IF w.monitor.auto_mode
    THEN [w EXCEPT !.monitor = set_auto_mode(@, FALSE),
                   !.gui.auto_mode_active = FALSE,
                   !.gui.mode_group_visible = TRUE,
                   !.timers = MarkStale(@)]
    ELSE LET w1 == [w EXCEPT !.monitor = set_auto_mode(@, TRUE),
                             !.gui.auto_mode_active = TRUE]
         IN  IF ~w1.gui.is_camera_active THEN start_camera(w1) ELSE w1

(* SafeWarnerGUI.toggle_camera *)
toggle_camera(w, t) ==
    IF ~w.gui.is_camera_active THEN start_camera(w)
    ELSE stop_camera(w, t, "toggle_camera")

(* SafeWarnerGUI.start_eye_exercise *)
gui_start_eye_exercise(w, t) ==
    [w EXCEPT !.monitor = start_eye_exercise(@, t)]

(* SafeWarnerGUI.update_status, as far as it changes the program's state:  *)
(* the rest sets label texts.                                              *)
update_status(w, t) ==
    LET exercise_status == get_eye_exercise_status(w.monitor, t)
    IN  IF exercise_status # None /\ exercise_status.exercise_done
           /\ w.gui.auto_mode_active
        THEN [w EXCEPT !.timers =
                 singleShot(@, Timer("complete_exercise_cycle", t + 5))]
        ELSE w

----------------------------------------------------------------------------
(* SpecApp: the application after launch (src/main.py), the user at the    *)
(* window and the tray, the Qt timers and the capture threads.  The start  *)
(* of run() and the body of stop() are single steps here; SpecStop         *)
(* interleaves them statement by statement.                                *)

Apply(w) ==
    /\ monitor' = w.monitor
    /\ gui' = w.gui
    /\ threads' = w.threads
    /\ timers' = w.timers

(* SafeWarnerGUI.setup_timers: the 30 s background_timer.  The 1 s         *)
(* status_timer is the action StatusTimer.                                 *)
setup_timers(tms, t) ==
    singleShot(tms, Timer("check_background_operation", t + 30))

(* main(): the window is constructed; with --auto-mode the monitor is      *)
(* switched to auto, the window starts hidden (--minimal) or minimized,    *)
(* and start_camera_auto_mode runs.                                        *)
Launched(auto, minimal) ==
    LET w0 == [monitor |-> HealthMonitorInit(FALSE),
               gui     |-> SafeWarnerGUIInit,
               threads |-> << >>,
               timers  |-> setup_timers(EmptyBag, session_start)]
    IN  IF auto
        THEN start_camera_auto_mode(
                 [w0 EXCEPT !.monitor = set_auto_mode(@, TRUE),
                            !.gui.hidden = minimal],
                 session_start)
        ELSE w0

InitApp ==
    /\ now = session_start
    /\ \E auto \in BOOLEAN, minimal \in BOOLEAN :
          /\ (minimal => auto)
          /\ LET w == Launched(auto, minimal)
             IN  /\ monitor = w.monitor
                 /\ gui = w.gui
                 /\ threads = w.threads
                 /\ timers = w.timers
    /\ hist = HistInit

AdvanceApp == AdvanceBy(AppStep, AppMaxTime)

GuiIdle == gui.pc = "idle"

(* The user clicks the camera button. *)
ClickCamera ==
    /\ GuiIdle /\ ~gui.hidden
    /\ gui.is_camera_active \/ FreeIds(threads) # {}
    /\ Apply(toggle_camera(World, now))
    /\ UNCHANGED <<now, hist>>

(* The user clicks the mode toggle, which lives in mode_group. *)
ClickToggleMode ==
    /\ GuiIdle /\ ~gui.hidden /\ gui.mode_group_visible
    /\ monitor.auto_mode \/ gui.is_camera_active \/ FreeIds(threads) # {}
    /\ Apply(toggle_mode(World))
    /\ UNCHANGED <<now, hist>>

(* The user clicks "Start Eye Exercise". *)
ClickStartEyeExercise ==
    /\ GuiIdle /\ ~gui.hidden /\ gui.eye_exercise_button_enabled
    /\ Len(monitor.session_data.alerts) < MaxAppAlerts
    /\ Apply(gui_start_eye_exercise(World, now))
    /\ UNCHANGED <<now, hist>>

(* The user picks "Show Window" in the tray menu. *)
TrayShowWindow ==
    /\ GuiIdle
    /\ Apply(show_normal(World))
    /\ UNCHANGED <<now, hist>>

(* The 1 s status_timer fires. *)
StatusTimer ==
    /\ GuiIdle
    /\ Apply(update_status(World, now))
    /\ UNCHANGED <<now, hist>>

(* The slot a timer is connected to. *)
Slot(cb, w, t) ==
    CASE cb = "check_background_operation" -> check_background_operation(w, t)
      [] cb = "try_background_after_start" -> try_background_after_start(w, t)
      [] cb = "wake_up_for_check" -> wake_up_for_check(w, t)
      [] cb = "perform_wake_check_and_exercise" ->
             perform_wake_check_and_exercise(w, t)
      [] cb = "complete_exercise_cycle" -> complete_exercise_cycle(w, t)

(* The event loop delivers a timer that is due.  A single-shot timer is    *)
(* gone once delivered; the background_timer is armed again.               *)
QTimerFire(tm) ==
    /\ GuiIdle
    /\ BagIn(tm, timers) /\ now >= tm.due
    /\ tm.cb = "wake_up_for_check" /\ gui.auto_mode_active
          => FreeIds(threads) # {}
    /\ LET rest == timers (-) SetToBag({tm})
           left == IF tm.cb = "check_background_operation"
                   THEN singleShot(rest, Timer(tm.cb, tm.due + 30))
                   ELSE rest
           w == Slot(tm.cb, [World EXCEPT !.timers = left], now)
       IN  /\ Len(w.monitor.session_data.alerts) <= MaxAppAlerts
           /\ Apply(w)
    /\ UNCHANGED <<now, hist>>

(* The frames a capture thread reads in SpecApp, <<face, pose, hot>>: no   *)
(* face; a face too close to the screen, looking right.                    *)
AppFrames ==
    { <<NoFace, NoPose, FALSE>>,
      <<[face |-> TRUE, gaze |-> "right", proximity |-> TRUE,
         low_blink |-> FALSE], NoPose, FALSE>> }

SetThread(i, th) ==
    /\ threads' = Collect([threads EXCEPT ![i] = th], gui)
    /\ UNCHANGED <<now, gui, timers, hist>>

(* What cv2.VideoCapture(0) can give thread i, a camera being attached:   *)
(* the device opens; while another capture holds it, it opens or not.      *)
CameraOpens(i) ==
    IF \E j \in DOMAIN threads : j # i /\ threads[j].cap = "open"
    THEN BOOLEAN ELSE {TRUE}

(* VideoThread.run line 21 *)
RunOpen(i) ==
    /\ i \in DOMAIN threads /\ threads[i].pc = "l21"
    /\ \E ok \in CameraOpens(i) :
          SetThread(i, [threads[i] EXCEPT
                            !.cap = IF ok THEN "open" ELSE "failed",
                            !.pc = "l23"])
    /\ UNCHANGED monitor

(* VideoThread.run lines 23-25: return unless the capture is opened *)
RunCheck(i) ==
    /\ i \in DOMAIN threads /\ threads[i].pc = "l23"
    /\ SetThread(i, [threads[i] EXCEPT
                        !.pc = IF threads[i].cap = "open" THEN "l27"
                               ELSE "done"])
    /\ UNCHANGED monitor

(* VideoThread.run line 27 *)
RunSetRunning(i) ==
    /\ i \in DOMAIN threads /\ threads[i].pc = "l27"
    /\ SetThread(i, [threads[i] EXCEPT !.running = TRUE, !.pc = "l28"])
    /\ UNCHANGED monitor

(* VideoThread.run lines 21-27 in one step, as SpecApp takes them *)
RunStart(i) ==
    /\ i \in DOMAIN threads /\ threads[i].pc = "l21"
    /\ \E ok \in CameraOpens(i) :
          SetThread(i, IF ok
                       THEN [pc |-> "l28", running |-> TRUE, cap |-> "open"]
                       ELSE [pc |-> "done", running |-> FALSE,
                             cap |-> "failed"])
    /\ UNCHANGED monitor

(* VideoThread.run line 28 with running false: the loop and run() end *)
RunExit(i) ==
    /\ i \in DOMAIN threads /\ threads[i].pc = "l28"
    /\ ~threads[i].running
    /\ SetThread(i, [threads[i] EXCEPT !.pc = "done"])
    /\ UNCHANGED monitor

(* process_frame, lines 548, 564 and 586-589: the alert signals of a frame, *)
(* results['proximity_alert'], results['low_blink_rate'] and the posture's  *)
(* is_tilted and is_slouching.                                              *)
AlertSignals(f, p) ==
    \/ f.face /\ (f.proximity \/ f.low_blink)
    \/ p.pose /\ (p.tilted \/ p.slouching)

(* VideoThread.run lines 28-44 with running true: one pass of the loop,   *)
(* the camera delivering a frame of F.  cap.read() on a released capture   *)
(* returns ret = False.                                                    *)
LoopPass(i, F) ==
    /\ i \in DOMAIN threads /\ threads[i].pc = "l28"
    /\ threads[i].running
    /\ \E ret \in BOOLEAN, fr \in F :
          IF ret /\ threads[i].cap = "open"
          THEN /\ monitor' = process_frame(monitor, fr[1], fr[2], fr[3],
                                           now, now, now)
               /\ Len(monitor'.session_data.alerts) <= MaxAppAlerts
               /\ hist' = [hist EXCEPT !.frame_alert = AlertSignals(fr[1], fr[2])]
          ELSE UNCHANGED <<monitor, hist>>
    /\ UNCHANGED <<now, gui, threads, timers>>

RunLoop(i) == LoopPass(i, AppFrames)

(* VideoThread.stop line 48, on the GUI thread *)
Stop48 ==
    /\ gui.pc = "l48"
    /\ threads' = [threads EXCEPT ![gui.video_thread].running = FALSE]
    /\ gui' = [gui EXCEPT !.pc = "l49"]
    /\ UNCHANGED <<now, monitor, timers, hist>>

(* VideoThread.stop lines 49-50 *)
Stop49 ==
    /\ gui.pc = "l49"
    /\ threads' = [threads EXCEPT ![gui.video_thread].cap =
                      IF @ = "None" THEN @ ELSE "released"]
    /\ gui' = [gui EXCEPT !.pc = "l51"]
    /\ UNCHANGED <<now, monitor, timers, hist>>

(* VideoThread.stop lines 48-50 in one step, as SpecApp takes them *)
StopRequest ==
    /\ gui.pc = "l48"
    /\ threads' = [threads EXCEPT ![gui.video_thread] =
                      [@ EXCEPT !.running = FALSE,
                                !.cap = IF @ = "None" THEN @ ELSE "released"]]
    /\ gui' = [gui EXCEPT !.pc = "l51"]
    /\ UNCHANGED <<now, monitor, timers, hist>>

(* VideoThread.stop line 51: wait() returns once run() has returned; then  *)
(* the rest of stop_camera and of the handler that called it.              *)
StopReturn ==
    /\ gui.pc = "l51"
    /\ threads[gui.video_thread].pc = "done"
    /\ Apply(AfterStop(World, now))
    /\ UNCHANGED <<now, hist>>

NextApp ==
    \/ AdvanceApp
    \/ ClickCamera
    \/ ClickToggleMode
    \/ ClickStartEyeExercise
    \/ TrayShowWindow
    \/ StatusTimer
    \/ \E tm \in BagToSet(timers) : QTimerFire(tm)
    \/ \E i \in 1..MaxThreads : RunStart(i) \/ RunExit(i) \/ RunLoop(i)
    \/ StopRequest
    \/ StopReturn

SpecApp == InitApp /\ [][NextApp]_vars

----------------------------------------------------------------------------
(* Properties of the application (SpecApp) *)

(* C3, as claimed: while the mode is MANUAL (monitor.auto_mode false) no   *)
(* tick and no timer calls start_eye_exercise: an exercise starts there    *)
(* only by the user's click on "Start Eye Exercise".                       *)
C3_ManualStartsOnlyByUser ==
    [][ (~monitor.auto_mode /\ StartCount(monitor') > StartCount(monitor))
            => ClickStartEyeExercise ]_vars

(* C7, as claimed: the application never enters background mode            *)
(* (background_mode becoming true) while eye_exercise_active is true.      *)
C7_NoBackgroundEntryDuringExercise ==
    [][ (~gui.background_mode /\ gui'.background_mode)
            => ~monitor.eye_exercise_active ]_vars

(* C8, as claimed: a wake timer scheduled before auto mode was turned off  *)
(* is cancelled: when its due time comes it does not restart capture,      *)
(* rewind auto_mode_last_check, show the window or schedule the wake       *)
(* check, also when auto mode was turned on again in between.              *)
C8_StaleWakeTimerDoesNothing ==
    [][ \A tm \in BagToSet(timers) :
          (QTimerFire(tm) /\ tm.cb = "wake_up_for_check" /\ tm.stale)
            => /\ UNCHANGED <<monitor, gui, threads>>
               /\ timers' = timers (-) SetToBag({tm}) ]_vars

(* The capture threads that are inside the loop of run() with a capture    *)
(* that delivers frames: the threads that call process_frame.              *)
Capturing ==
    { i \in DOMAIN threads :
        threads[i].pc = "l28" /\ threads[i].running
           /\ threads[i].cap = "open" }

(* C9, as claimed: at most one capture loop is executing process_frame on  *)
(* the shared HealthMonitor at any time.                                   *)
C9_AtMostOneCaptureLoop == Cardinality(Capturing) <= 1

----------------------------------------------------------------------------
(* SpecStop: the user starts and stops the camera; VideoThread.run and     *)
(* VideoThread.stop interleave statement by statement.  The threads are    *)
(* scheduled fairly, and so is the GUI thread inside stop().               *)

(* The frames a capture thread reads in SpecStop: a face looking right, a  *)
(* face looking left.                                                      *)
StopFrames ==
    { <<Quiet("right"), NoPose, FALSE>>, <<Quiet("left"), NoPose, FALSE>> }

RunLoopStop(i) == LoopPass(i, StopFrames)

(* stop_camera called once more while the camera is stopped *)
StopCameraAgain ==
    /\ GuiIdle /\ ~gui.is_camera_active
    /\ Apply(stop_camera(World, now, "stop_camera"))
    /\ UNCHANGED <<now, hist>>

RunStep(i) ==
    RunOpen(i) \/ RunCheck(i) \/ RunSetRunning(i) \/ RunExit(i)
       \/ RunLoopStop(i)

StopStep == Stop48 \/ Stop49 \/ StopReturn

NextStop ==
    \/ AdvanceApp
    \/ ClickCamera
    \/ StopCameraAgain
    \/ \E i \in 1..MaxThreads : RunStep(i)
    \/ StopStep

SpecStop ==
    /\ InitApp
    /\ [][NextStop]_vars
    /\ \A i \in 1..MaxThreads : WF_vars(RunStep(i))
    /\ WF_vars(StopStep)

(* C10, as claimed: for every interleaving of VideoThread.stop() with      *)
(* run(), stop() eventually returns; when it returns the loop is not       *)
(* running and the capture device has been released; a second              *)
(* stop_camera() changes nothing.                                          *)
C10_StopReturnsReleasedAndIdempotent ==
    /\ (gui.pc = "l48") ~> (gui.pc = "idle")
    /\ [][ StopReturn =>
             LET th == threads[gui.video_thread]
             IN  th.pc = "done" /\ ~th.running /\ th.cap = "released" ]_vars
    /\ [][ StopCameraAgain => UNCHANGED <<monitor, gui, threads, timers>> ]_vars

(* C10, the run that refutes it: stop() is inside wait() while the loop of *)
(* run() goes on with running = True.                                      *)
C10_StopHangs ==
    /\ gui.pc = "l51"
    /\ threads[gui.video_thread].pc = "l28"
    /\ threads[gui.video_thread].running

(* From there every step leads to such a state again: only line 48 sets    *)
(* running to False, and stop() is past it.                                *)
StopHangsForever == [][ C10_StopHangs => C10_StopHangs' ]_vars

----------------------------------------------------------------------------
(* Properties of the auto-mode poll (SpecFrame) *)

(* A tick at time t on monitor m performs the poll of lines 526-529; it   *)
(* is the step that moves auto_mode_last_check.                            *)
Polls(m, t) == m.auto_mode /\ t - m.auto_mode_last_check >= AUTO_MODE_INTERVAL

(* C11: should_check_auto_mode() is false in MANUAL mode, true in AUTO     *)
(* mode exactly when now >= auto_mode_last_check + auto_mode_interval,     *)
(* false at the instant a poll has set auto_mode_last_check = now, and     *)
(* false at the end of a tick that polled.                                 *)
C11_PollGate ==
    /\ [](/\ ~monitor.auto_mode => ~should_check_auto_mode(monitor, now)
          /\ monitor.auto_mode =>
               (should_check_auto_mode(monitor, now)
                  <=> now >= monitor.auto_mode_last_check + AUTO_MODE_INTERVAL)
          /\ ~should_check_auto_mode(AutoModePoll(monitor, now), now))
    /\ [][ (Polls(monitor, now)
              /\ monitor'.auto_mode_last_check # monitor.auto_mode_last_check)
               => ~should_check_auto_mode(monitor', now') ]_vars

(* C11 witness: in AUTO mode a tick has just polled a full interval after  *)
(* construction, and the gate is closed again.                             *)
C11_Witness ==
    /\ monitor.auto_mode
    /\ now >= session_start + AUTO_MODE_INTERVAL
    /\ monitor.auto_mode_last_check = now
    /\ ~should_check_auto_mode(monitor, now)

(* The step completes an exercise: it appends to eye_exercises. *)
Completes ==
    Len(monitor'.session_data.eye_exercises)
        > Len(monitor.session_data.eye_exercises)

(* The time at which the exercise last logged completed: its start plus    *)
(* its logged duration.                                                    *)
CompletionTime(m0, m1) ==
    m0.eye_exercise_start_time
       + m1.session_data.eye_exercises[Len(m1.session_data.eye_exercises)].duration

(* C12: an exercise completing at time T in AUTO mode sets                 *)
(* auto_mode_last_check = T, so that should_check_auto_mode() is false at  *)
(* every time before T + auto_mode_interval; in MANUAL mode completion     *)
(* leaves auto_mode_last_check unchanged.                                  *)
C12_CompletionDefersPoll ==
    [][ Completes =>
          LET T == CompletionTime(monitor, monitor')
          IN  IF monitor.auto_mode
              THEN /\ monitor'.auto_mode_last_check = T
                   /\ \A t \in T..(T + AUTO_MODE_INTERVAL - 1) :
                         ~should_check_auto_mode(monitor', t)
                   /\ should_check_auto_mode(monitor', T + AUTO_MODE_INTERVAL)
              ELSE monitor'.auto_mode_last_check
                       = monitor.auto_mode_last_check ]_vars

(* C12 witness: in AUTO mode an exercise has completed a full interval     *)
(* after construction, and auto_mode_last_check is its completion time.    *)
C12_Witness ==
    /\ monitor.auto_mode
    /\ monitor.exercise_done /\ ~monitor.eye_exercise_active
    /\ Len(monitor.session_data.eye_exercises) = 1
    /\ monitor.auto_mode_last_check
          = monitor.eye_exercise_start_time
              + monitor.session_data.eye_exercises[1].duration
    /\ monitor.auto_mode_last_check >= session_start + AUTO_MODE_INTERVAL

----------------------------------------------------------------------------
(* Properties of the session log (SpecFrame) *)

IsPrefix(a, b) == Len(a) <= Len(b) /\ \A i \in 1..Len(a) : a[i] = b[i]

(* The exercises completed so far: each completion emits one               *)
(* "Exercise Complete!" notification.                                      *)
CompletedCount(m) ==
    Cardinality({ i \in 1..Len(m.fast_notify_log) :
                    m.fast_notify_log[i] = "Exercise Complete!" })

----------------------------------------------------------------------------
(* More properties of the exercise state machine (SpecExercise) *)

(* The time_left a matching tick at time t computes, lines 296-297 *)
ComputedTimeLeft(m, t) == Max(0, m.paused_time_left - (t - m.phase_start_time))

(* C14: exercise_done changes from false to true only in an                *)
(* update_eye_exercise tick with gaze "left" in the LEFT phase of an       *)
(* active exercise whose countdown is running and whose computed           *)
(* time_left is <= 0: not from the RIGHT phase, not from a paused or       *)
(* waiting state, not by another operation.                                *)
C14_DoneOnlyFromLeftCountdown ==
    [][ (~monitor.exercise_done /\ monitor'.exercise_done)
          => /\ UpdateEyeExercise("left")
             /\ monitor.eye_exercise_active
             /\ monitor.current_phase = "left"
             /\ monitor.countdown_active
             /\ ComputedTimeLeft(monitor, now) <= 0
             /\ monitor'.time_left <= 0 ]_vars

(* C14 witness: an exercise that was paused on its way has completed. *)
C14_Witness ==
    /\ monitor.exercise_done /\ ~monitor.eye_exercise_active
    /\ hist.edge = "complete" /\ ~hist.pure
    /\ monitor.current_phase = "left"
    /\ Len(monitor.session_data.eye_exercises) = 1

(* A step that stays inside one phase of one running exercise *)
SamePhase ==
    /\ monitor.eye_exercise_active /\ ~monitor.exercise_done
    /\ monitor'.eye_exercise_active
    /\ monitor'.current_phase = monitor.current_phase

(* C15: within one phase of one exercise time_left never increases; it     *)
(* changes only on a tick whose gaze matches the phase; a tick with        *)
(* another gaze and the passage of time leave it unchanged.                *)
C15_TimeLeftMonotoneWithinPhase ==
    [][ /\ Advance => monitor'.time_left = monitor.time_left
        /\ \A d \in Gazes :
             (UpdateEyeExercise(d) /\ SamePhase)
               => /\ monitor'.time_left <= monitor.time_left
                  /\ d # monitor.current_phase
                       => monitor'.time_left = monitor.time_left
                  /\ monitor'.time_left # monitor.time_left
                       => /\ d = monitor.current_phase
                          /\ monitor'.time_left = ComputedTimeLeft(monitor, now)
      ]_vars

(* C15 witness: a countdown that was paused and resumed has gone on down   *)
(* from the value it was paused at.                                        *)
C15_Witness ==
    /\ monitor.eye_exercise_active /\ monitor.countdown_active
    /\ hist.edge = "count" /\ hist.tl_at_pause # -1
    /\ 0 < monitor.time_left /\ monitor.time_left < hist.tl_at_pause

(* The re-prompt of a phase, lines 273-277 and 335-339 *)
RePrompt(phase) ==
    [ type |-> "eye_exercise",
      title |-> IF phase = "right" THEN "Keep Looking Right"
                                   ELSE "Keep Looking Left" ]

RePromptCount(m) ==
    Cardinality({ i \in 1..Len(m.session_data.alerts) :
                    m.session_data.alerts[i] \in {RePrompt("right"), RePrompt("left")} })

(* C16: a tick whose gaze does not match the phase emits the "keep         *)
(* looking" re-prompt exactly once when it stops a running countdown       *)
(* (countdown_active true -> false); while the countdown is already        *)
(* stopped (paused or waiting) such a tick changes no exercise state and   *)
(* appends no alert; and no re-prompt is emitted by any other step.        *)
C16_RePromptOncePerGazeLoss ==
    [][ /\ \A d \in Gazes :
             (/\ UpdateEyeExercise(d)
              /\ monitor.eye_exercise_active /\ ~monitor.exercise_done
              /\ d # monitor.current_phase)
               => IF monitor.countdown_active
                  THEN /\ ~monitor'.countdown_active
                       /\ monitor'.session_data.alerts
                            = Append(monitor.session_data.alerts,
                                     RePrompt(monitor.current_phase))
                       /\ monitor'.fast_notify_calls = monitor.fast_notify_calls + 1
                       /\ monitor'.current_phase = monitor.current_phase
                  ELSE monitor' = monitor
        /\ RePromptCount(monitor') # RePromptCount(monitor)
             => /\ RePromptCount(monitor') = RePromptCount(monitor) + 1
                /\ monitor.countdown_active /\ ~monitor'.countdown_active
                /\ hist'.edge = "pause"
      ]_vars

(* C16 witness: the gaze was lost twice, two re-prompts are on record, and *)
(* the last tick found the countdown already stopped.                      *)
C16_Witness ==
    /\ monitor.eye_exercise_active /\ ~monitor.countdown_active
    /\ hist.edge = "wait" /\ hist.tl_at_pause # -1
    /\ RePromptCount(monitor) = 2

----------------------------------------------------------------------------
(* The effect of one send_notification call (SpecNotify) *)

(* The gate of send_notification, line 465, on the state before the call *)
Accepted(m, t, kind) ==
    \/ kind = "eye_exercise"
    \/ t - Get(m.last_notification, kind, 0) >= NOTIFICATION_COOLDOWN

(* C17: an accepted send_notification(kind) makes exactly one notifier     *)
(* call, sets last_notification[kind] to now, increments alert_stats[kind] *)
(* by one and appends one record; a gated request makes no notifier call   *)
(* and leaves last_notification, alert_stats and the alerts unchanged.     *)
C17_SendNotificationEffect ==
    [][ \A k \in NotifyKinds :
          SendNotification(k) =>
            IF Accepted(monitor, now, k)
            THEN /\ monitor'.fast_notify_calls = monitor.fast_notify_calls + 1
                 /\ Get(monitor'.last_notification, k, 0) = now
                 /\ \A j \in AlertKinds \ {k} :
                      Get(monitor'.last_notification, j, 0)
                        = Get(monitor.last_notification, j, 0)
                 /\ monitor'.alert_stats
                      = [monitor.alert_stats EXCEPT ![k] = @ + 1]
                 /\ monitor'.session_data.alerts
                      = Append(monitor.session_data.alerts,
                               [type |-> k, title |-> "requested"])
            ELSE /\ monitor'.fast_notify_calls = monitor.fast_notify_calls
                 /\ monitor'.last_notification = monitor.last_notification
                 /\ monitor'.alert_stats = monitor.alert_stats
                 /\ monitor'.session_data.alerts = monitor.session_data.alerts
      ]_vars

(* C17 witness: a posture request was accepted and a later one, inside the *)
(* cooldown, was gated; the stamp and the count are those of the first.    *)
C17_Witness ==
    /\ Len(hist.requests) = 2
    /\ hist.requests[1].type = "posture" /\ hist.requests[2].type = "posture"
    /\ hist.requests[1].calls = 1 /\ hist.requests[2].calls = 0
    /\ hist.requests[2].t > hist.requests[1].t
    /\ Get(monitor.last_notification, "posture", 0) = hist.requests[1].t
    /\ monitor.alert_stats["posture"] = 1
    /\ Len(monitor.session_data.alerts) = 1

----------------------------------------------------------------------------
(* More properties of a frame (SpecFrame) *)

(* C18: a tick sets auto_mode_last_check to now only when the mode is      *)
(* AUTO, should_check_auto_mode() is true and no exercise is active; while *)
(* an exercise is active ticks never modify auto_mode_last_check except at *)
(* the completion of the exercise.                                         *)
C18_PollOnlyWhenNoExercise ==
    [][ monitor'.auto_mode_last_check # monitor.auto_mode_last_check
          => \/ /\ monitor.auto_mode
                /\ should_check_auto_mode(monitor, now)
                /\ ~monitor.eye_exercise_active
             \/ /\ monitor.eye_exercise_active
                /\ Completes ]_vars

(* C18: an exercise is running in AUTO and a poll has been recorded after  *)
(* it started.                                                             *)
C18_PolledDuringExercise ==
    /\ monitor.auto_mode /\ monitor.eye_exercise_active
    /\ monitor.session_data.eye_exercises = << >>
    /\ monitor.auto_mode_last_check > monitor.eye_exercise_start_time

----------------------------------------------------------------------------
(* SpecScreen: a session whose camera is started SCREEN_TIME_BREAK seconds *)
(* after the HealthMonitor was constructed; from then on, as SpecFrame.    *)

ScreenMaxTime == SCREEN_TIME_BREAK + ScreenFrameSteps * FrameStep

LongSitting ==
    /\ now < session_start + SCREEN_TIME_BREAK
    /\ now' = now + SCREEN_TIME_BREAK
    /\ UNCHANGED <<monitor, gui, threads, timers, hist>>

AdvanceScreen ==
    /\ now >= session_start + SCREEN_TIME_BREAK
    /\ AdvanceBy(FrameStep, ScreenMaxTime)

ScreenFrame(f, p, hot, d1, d2) ==
    /\ now >= session_start + SCREEN_TIME_BREAK
    /\ now + d1 + d2 <= session_start + ScreenMaxTime
    /\ monitor' = process_frame(monitor, f, p, hot, now, now + d1, now + d1 + d2)
    /\ Len(monitor'.session_data.alerts) <= MaxScreenAlerts
    /\ now' = now + d1 + d2
    /\ UNCHANGED <<gui, threads, timers, hist>>

ScreenStartExercise ==
    /\ Len(monitor.session_data.alerts) < MaxScreenAlerts
    /\ monitor' = start_eye_exercise(monitor, now)
    /\ UNCHANGED <<now, gui, threads, timers, hist>>

NextScreen ==
    \/ LongSitting
    \/ AdvanceScreen
    \/ \E b \in BOOLEAN : SetAutoMode(b)
    \/ ScreenStartExercise
    \/ \E fr \in Frames, d \in Drifts :
          ScreenFrame(fr[1], fr[2], fr[3], d[1], d[2])

SpecScreen == InitCore /\ [][NextScreen]_vars

(* The 'screen_time' records of the ledger *)
ScreenTimeRecords(m) ==
    Cardinality({ i \in 1..Len(m.session_data.alerts) :
                    m.session_data.alerts[i].type = "screen_time" })

(* C19: the screen-time alert (now - last_break_time > 20 min) produces a  *)
(* 'screen_time' notification only in MANUAL mode, behind the 30 s         *)
(* cooldown and, there, whenever a frame finds the alert true, the         *)
(* cooldown over and no exercise active; in AUTO mode no 'screen_time'     *)
(* record is ever appended: the alert only feeds the trigger that may      *)
(* start an exercise and reset last_break_time.                            *)
C19_ScreenTimeNotifiesOnlyInManual ==
    /\ [][ /\ ScreenTimeRecords(monitor') # ScreenTimeRecords(monitor)
             => /\ ~monitor.auto_mode
                /\ ScreenTimeRecords(monitor') = ScreenTimeRecords(monitor) + 1
                /\ check_screen_time(monitor, now')
                /\ now' - Get(monitor.last_notification, "screen_time", 0)
                     >= NOTIFICATION_COOLDOWN
                /\ Get(monitor'.last_notification, "screen_time", 0) = now'
           /\ monitor.auto_mode
             => /\ ScreenTimeRecords(monitor') = ScreenTimeRecords(monitor)
                /\ monitor'.alert_stats["screen_time"]
                     = monitor.alert_stats["screen_time"]
                /\ monitor'.last_break_time # monitor.last_break_time
                     => /\ ~monitor.eye_exercise_active
                        /\ monitor'.eye_exercise_active
                        /\ monitor'.last_break_time
                             = monitor'.eye_exercise_start_time
         ]_vars
    /\ [](\A fr \in Frames :
            (/\ ~monitor.auto_mode /\ ~monitor.eye_exercise_active
             /\ check_screen_time(monitor, now)
             /\ should_notify(monitor, now, "screen_time"))
              => ScreenTimeRecords(
                    process_frame(monitor, fr[1], fr[2], fr[3], now, now, now))
                   = ScreenTimeRecords(monitor) + 1)

(* C19 witness: in MANUAL the break notification went out twice, a         *)
(* cooldown apart, and last_break_time is still the start of the session.  *)
C19_Witness ==
    /\ ~monitor.auto_mode
    /\ ScreenTimeRecords(monitor) = 2
    /\ monitor.alert_stats["screen_time"] = 2
    /\ Get(monitor.last_notification, "screen_time", 0) = now
    /\ monitor.last_break_time = session_start
    /\ check_screen_time(monitor, now)

(* C19 witness, AUTO: the screen-time alert alone started an exercise and  *)
(* no 'screen_time' record was written.                                    *)
C19_WitnessAuto ==
    /\ monitor.auto_mode /\ monitor.eye_exercise_active
    /\ monitor.last_break_time > session_start + SCREEN_TIME_BREAK
    /\ ScreenTimeRecords(monitor) = 0
    /\ Len(monitor.session_data.alerts) = 1

----------------------------------------------------------------------------
(* Background entry and the frame signals (SpecApp) *)

(* C20, as claimed: background entry (background_mode becoming true)       *)
(* happens only when the session has run the minimum warm-up time, no      *)
(* exercise is active, and none of the alert conditions (proximity, low    *)
(* blink rate, posture tilted, posture slouching) is true in the signals   *)
(* of the most recent frame.                                               *)
C20_BackgroundEntryOnlyWhenAllClear ==
    [][ (~gui.background_mode /\ gui'.background_mode)
            => /\ check_user_distance(now)
               /\ ~monitor.eye_exercise_active
               /\ ~hist.frame_alert ]_vars

(* C20: the window has just gone to background (the capture thread is      *)
(* about to be stopped) with the session warmed up and no exercise         *)
(* active, while the last frame read showed an alert condition.            *)
C20_BackgroundWithAlert ==
    /\ gui.background_mode /\ gui.pc = "l48"
    /\ check_user_distance(now)
    /\ ~monitor.eye_exercise_active
    /\ hist.frame_alert
    /\ monitor.alert_stats["proximity"] = 1

----------------------------------------------------------------------------
(* Background entry and exit (SpecApp) *)

(* switch_to_background_mode returns: stop_camera, called by it, has       *)
(* returned, and lines 294-300 have run.                                   *)
EntryCompletes ==
    /\ gui.caller = "switch_to_background_mode"
    /\ gui.pc = "l51" /\ gui'.pc = "idle"

(* C21, as claimed: every background entry stops camera capture, hides     *)
(* the window and schedules one wake timer due exactly AUTO_MODE_INTERVAL  *)
(* seconds later; a call while background_mode is already true does        *)
(* nothing and schedules no timer.                                         *)
C21_BackgroundEntryStopsCapture ==
    /\ [][ EntryCompletes
             => /\ gui'.background_mode /\ gui'.hidden
                /\ ~gui'.is_camera_active /\ gui'.video_thread = 0
                /\ Capturing' = {}
                /\ timers' = singleShot(timers,
                       Timer("wake_up_for_check", now + AUTO_MODE_INTERVAL))
         ]_vars
    /\ [](gui.background_mode
            => switch_to_background_mode(World, now) = World)

(* C21: the window is hidden in background mode, the wake timer is set,    *)
(* and a capture loop is still running.                                    *)
C21_BackgroundWithCapture ==
    /\ gui.background_mode /\ gui.hidden /\ gui.pc = "idle"
    /\ ~gui.is_camera_active
    /\ \E tm \in BagToSet(timers) : tm.cb = "wake_up_for_check" /\ tm.due > now
    /\ Capturing # {}

(* A wake timer is delivered while auto mode is active: background exit *)
WakeStep ==
    /\ gui.auto_mode_active
    /\ \E tm \in BagToSet(timers) :
          tm.cb = "wake_up_for_check" /\ QTimerFire(tm)

(* A capture loop processes a frame: nothing but the monitor (and the      *)
(* history) changes.                                                       *)
TickStep ==
    /\ monitor' # monitor
    /\ UNCHANGED <<now, gui, threads, timers>>

----------------------------------------------------------------------------
(* Health alerts and the exercise (SpecFrame) *)

(* eye_exercise_active after the records recs[1..n] were appended, `a`     *)
(* being its value before them: start_eye_exercise sets it with its        *)
(* notification (lines 206, 220-225), the completion clears it with its    *)
(* own (lines 300, 310-314).                                               *)
RECURSIVE ActiveAfter(_, _, _)
ActiveAfter(a, recs, n) ==
    IF n = 0 THEN a
    ELSE IF recs[n].title = "Eye Exercise Time!" THEN TRUE
    ELSE IF recs[n].title = "Exercise Complete!" THEN FALSE
    ELSE ActiveAfter(a, recs, n - 1)

(* The records a step appends *)
NewAlerts(m0, m1) ==
    SubSeq(m1.session_data.alerts, Len(m0.session_data.alerts) + 1,
           Len(m1.session_data.alerts))

HealthRecords(m) ==
    Cardinality({ i \in 1..Len(m.session_data.alerts) :
                    m.session_data.alerts[i].type # "eye_exercise" })

AllIssues == <<Issue(TRUE, TRUE), Pose(TRUE, TRUE), TRUE>>

(* C23: every alert record of a kind other than eye_exercise is appended   *)
(* at a moment when eye_exercise_active is false; while an exercise is     *)
(* active a frame, whatever its signals, changes the exercise state        *)
(* machine only and appends no health alert.                               *)
C23_NoHealthAlertDuringExercise ==
    /\ [][ LET new == NewAlerts(monitor, monitor')
           IN  /\ \A j \in 1..Len(new) :
                     new[j].type # "eye_exercise"
                       => ~ActiveAfter(monitor.eye_exercise_active, new, j - 1)
               /\ monitor'.eye_exercise_active
                    = ActiveAfter(monitor.eye_exercise_active, new, Len(new))
         ]_vars
    /\ [](monitor.eye_exercise_active
            => \A fr \in Frames :
                 LET m2 == process_frame(monitor, fr[1], fr[2], fr[3],
                                         now, now, now)
                 IN  m2.eye_exercise_active
                       => /\ HealthRecords(m2) = HealthRecords(monitor)
                          /\ m2.alert_stats
                               = [monitor.alert_stats EXCEPT !["eye_exercise"] =
                                     m2.alert_stats["eye_exercise"]])

(* C23 witness: an exercise is counting down, the cooldowns are over, and  *)
(* a frame with every issue only pauses it.                                *)
C23_Witness ==
    /\ monitor.eye_exercise_active /\ monitor.countdown_active
    /\ HealthRecords(monitor) = 0
    /\ now % 10 = 0
    /\ should_notify(monitor, now, "proximity")
    /\ LET m2 == process_frame(monitor, AllIssues[1], AllIssues[2],
                               AllIssues[3], now, now, now)
       IN  /\ m2.session_data.alerts
                = Append(monitor.session_data.alerts,
                         RePrompt(monitor.current_phase))
           /\ ~m2.countdown_active

(* C24: the session ledger is append-only: every operation leaves the      *)
(* entries of session_data['alerts'] and session_data['eye_exercises']     *)
(* that exist in place and unchanged (no length decreases, no entry is     *)
(* modified or removed), and no alert_stats counter ever decreases.        *)
C24_LedgerAppendOnly ==
    [][ /\ Len(monitor'.session_data.alerts) >= Len(monitor.session_data.alerts)
        /\ \A i \in 1..Len(monitor.session_data.alerts) :
              monitor'.session_data.alerts[i] = monitor.session_data.alerts[i]
        /\ Len(monitor'.session_data.eye_exercises)
              >= Len(monitor.session_data.eye_exercises)
        /\ \A i \in 1..Len(monitor.session_data.eye_exercises) :
              monitor'.session_data.eye_exercises[i]
                 = monitor.session_data.eye_exercises[i]
        /\ \A k \in AlertKinds :
              monitor'.alert_stats[k] >= monitor.alert_stats[k]
      ]_vars

(* C24 witness: three alerts and a completed exercise are on record, and   *)
(* the counters add up to the alerts.                                      *)
C24_Witness ==
    /\ Len(monitor.session_data.alerts) = 3
    /\ Len(monitor.session_data.eye_exercises) = 1
    /\ monitor.alert_stats["eye_exercise"] = 3
    /\ monitor.session_data.alerts[1].title = "Eye Exercise Time!"
    /\ monitor.session_data.alerts[3].title = "Exercise Complete!"

----------------------------------------------------------------------------
(* SpecStatus: the caller of SpecExercise also asks for the status.        *)

GetEyeExerciseStatus ==
    /\ LET status == get_eye_exercise_status(monitor, now)
       IN  hist' = [hist EXCEPT !.op = "get_eye_exercise_status",
                                !.edge = IF status = None THEN "null"
                                         ELSE "status"]
    /\ UNCHANGED <<now, monitor, gui, threads, timers>>

NextStatus ==
    \/ NextExercise
    \/ GetEyeExerciseStatus

SpecStatus == InitCore /\ [][NextStatus]_vars

(* C25: get_eye_exercise_status() returns null exactly when no exercise    *)
(* is active; otherwise it returns the current phase, remaining_time =     *)
(* time_left, total_elapsed = now - eye_exercise_start_time and paused =   *)
(* not countdown_active; and it modifies no state.                         *)
C25_StatusReflectsExercise ==
    /\ [](LET status == get_eye_exercise_status(monitor, now)
          IN  /\ status = None <=> ~monitor.eye_exercise_active
              /\ monitor.eye_exercise_active
                   => /\ status.phase = monitor.current_phase
                      /\ status.remaining_time = monitor.time_left
                      /\ status.total_elapsed
                           = now - monitor.eye_exercise_start_time
                      /\ status.paused = ~monitor.countdown_active
                      /\ status.exercise_done = monitor.exercise_done)
    /\ [](hist.op = "get_eye_exercise_status"
            => (hist.edge = "null" <=> ~monitor.eye_exercise_active))
    /\ [][ GetEyeExerciseStatus => monitor' = monitor ]_vars

(* C25 witness: the status was asked for while the LEFT phase was paused,  *)
(* some seconds into the exercise.                                         *)
C25_Witness ==
    /\ hist.op = "get_eye_exercise_status" /\ hist.edge = "status"
    /\ monitor.eye_exercise_active /\ ~monitor.countdown_active
    /\ monitor.current_phase = "left"
    /\ monitor.paused_time_left < PHASE_SECONDS
    /\ LET status == get_eye_exercise_status(monitor, now)
       IN  /\ status.paused /\ status.phase = "left"
           /\ status.total_elapsed > PHASE_SECONDS
           /\ status.remaining_time = monitor.paused_time_left

----------------------------------------------------------------------------
(* The system health step with the sensor library in each of its states.   *)

(* What psutil gives: the import failed; sensors_temperatures() returns an *)
(* empty dict; it returns a reading below or above 70 degrees.             *)
Sensors == {"no_psutil", "no_sensors", "cool", "hot"}

(* HealthMonitor.check_system_health: `available` and the items of         *)
(* system_info whose key contains 'temp'.  `number` tells whether the      *)
(* value is a number or the string 'unavailable'.                          *)
check_system_health(sensors) ==
    [ available |-> sensors # "no_psutil",
      temps |->
        CASE sensors = "no_psutil"  -> { }
          [] sensors = "no_sensors" ->
               { [key |-> "temperature", number |-> FALSE, value |-> 0] }
          [] sensors = "cool" ->
               { [key |-> "temp_coretemp", number |-> TRUE, value |-> 45] }
          [] sensors = "hot" ->
               { [key |-> "temp_coretemp", number |-> TRUE, value |-> 85] } ]

(* process_frame, lines 626-639: `temp > 70` with temp a string raises     *)
(* TypeError, and nothing in process_frame catches it.                     *)
SystemHealthRaises(m, sensors, t) ==
    /\ t % 10 = 0 /\ ~m.eye_exercise_active
    /\ LET system_info == check_system_health(sensors)
       IN  /\ system_info.available
           /\ \E e \in system_info.temps : ~e.number

(* process_frame, lines 626-639, when no comparison raises *)
SystemHealthCheck(m, sensors, t) ==
    LET system_info == check_system_health(sensors)
    IN  IF /\ t % 10 = 0 /\ ~m.eye_exercise_active
           /\ system_info.available
           /\ \E e \in system_info.temps : e.number /\ e.value > 70
           /\ should_notify(m, t, "system_health")
        THEN send_notification(m, t, "System Running Hot", "system_health")
        ELSE m

(* HealthMonitor.process_frame with the sensors as an input: the monitor   *)
(* it leaves and whether it raised instead of returning its results.       *)
process_frame_sensors(m, f, p, sensors, t) ==
    LET m1 == ScreenTimeBlock(
                  PoseBlock(FaceBlock(AutoModePoll(m, t), f, t), p, t), t)
    IN  IF SystemHealthRaises(m1, sensors, t)
        THEN [monitor |-> m1, raised |-> TRUE]
        ELSE [monitor |-> SystemHealthCheck(m1, sensors, t), raised |-> FALSE]

(* SpecHealth: a caller of start_eye_exercise and process_frame on         *)
(* machines with each kind of sensors.                                     *)

HealthFrames == { <<NoFace, NoPose>>, <<Issue(TRUE, FALSE), NoPose>> }

HealthFrame(f, p, sensors) ==
    /\ LET r == process_frame_sensors(monitor, f, p, sensors, now)
       IN  /\ monitor' = r.monitor
           /\ hist' = [hist EXCEPT !.op = "process_frame",
                                   !.edge = IF r.raised THEN "raised"
                                            ELSE "returned"]
    /\ Len(monitor'.session_data.alerts) <= MaxHealthAlerts
    /\ UNCHANGED <<now, gui, threads, timers>>

HealthStartExercise ==
    /\ Len(monitor.session_data.alerts) < MaxHealthAlerts
    /\ monitor' = start_eye_exercise(monitor, now)
    /\ hist' = HistStart(hist, monitor)
    /\ UNCHANGED <<now, gui, threads, timers>>

NextHealth ==
    \/ Advance
    \/ HealthStartExercise
    \/ \E fr \in HealthFrames, s \in Sensors : HealthFrame(fr[1], fr[2], s)

SpecHealth == InitCore /\ [][NextHealth]_vars

(* C26, as claimed: when the sensor library is available but reports no    *)
(* temperature sensors (check_system_health returns available = true with  *)
(* temperature = 'unavailable'), the system-health step of process_frame   *)
(* raises no alert and the tick completes normally, returning its results. *)
C26_NoSensorsTickCompletes ==
    [][ \A fr \in HealthFrames :
          HealthFrame(fr[1], fr[2], "no_sensors")
            => /\ hist'.edge = "returned"
               /\ monitor'.alert_stats["system_health"]
                    = monitor.alert_stats["system_health"] ]_vars

(* C26: process_frame has raised on a machine without temperature sensors. *)
C26_TickRaised ==
    /\ hist.op = "process_frame" /\ hist.edge = "raised"
    /\ now % 10 = 0 /\ ~monitor.eye_exercise_active
    /\ check_system_health("no_sensors").available
    /\ monitor.alert_stats["system_health"] = 0

(* The other states of the sensor library never make process_frame raise,  *)
(* and only a reading above 70 degrees raises the system health alert.     *)
OtherSensorsTickCompletes ==
    [][ \A fr \in HealthFrames, s \in Sensors \ {"no_sensors"} :
          HealthFrame(fr[1], fr[2], s)
            => /\ hist'.edge = "returned"
               /\ monitor'.alert_stats["system_health"]
                    # monitor.alert_stats["system_health"] => s = "hot" ]_vars

----------------------------------------------------------------------------
(* SpecCapture: the user starts and stops the camera on a machine whose    *)
(* camera may fail to open and may fail to deliver a frame.                *)

InitCapture ==
    /\ now = session_start
    /\ LET w == Launched(FALSE, FALSE)
       IN  /\ monitor = w.monitor
           /\ gui = w.gui
           /\ threads = w.threads
           /\ timers = w.timers
    /\ hist = HistInit

(* VideoThread.run lines 21-27 in one step; cv2.VideoCapture(0) opens the  *)
(* camera or not.                                                          *)
CaptureStart(i) ==
    /\ i \in DOMAIN threads /\ threads[i].pc = "l21"
    /\ \E ok \in BOOLEAN :
          SetThread(i, IF ok
                       THEN [pc |-> "l28", running |-> TRUE, cap |-> "open"]
                       ELSE [pc |-> "done", running |-> FALSE,
                             cap |-> "failed"])
    /\ UNCHANGED monitor

(* VideoThread.run lines 28-44: cap.read() delivers a frame *)
ReadFrame(i) ==
    /\ i \in DOMAIN threads /\ threads[i].pc = "l28"
    /\ threads[i].running /\ threads[i].cap = "open"
    /\ \E fr \in AppFrames :
          monitor' = process_frame(monitor, fr[1], fr[2], fr[3], now, now, now)
    /\ Len(monitor'.session_data.alerts) <= MaxAppAlerts
    /\ hist' = [hist EXCEPT !.failed_reads = 0]
    /\ UNCHANGED <<now, gui, threads, timers>>

(* VideoThread.run lines 28-31: cap.read() returns ret = False, and the    *)
(* loop goes on to its next pass.                                          *)
ReadFails(i) ==
    /\ i \in DOMAIN threads /\ threads[i].pc = "l28"
    /\ threads[i].running
    /\ hist' = [hist EXCEPT !.failed_reads =
                    IF @ < MaxFailedReads THEN @ + 1 ELSE @]
    /\ UNCHANGED <<now, monitor, gui, threads, timers>>

NextCapture ==
    \/ AdvanceApp
    \/ ClickCamera
    \/ StopRequest
    \/ StopReturn
    \/ \E i \in 1..MaxThreads :
          CaptureStart(i) \/ RunExit(i) \/ ReadFrame(i) \/ ReadFails(i)

SpecCapture == InitCapture /\ [][NextCapture]_vars

(* The thread start_camera started has returned from run() at line 25:     *)
(* the camera did not open.                                                *)
OpenFailed ==
    /\ gui.video_thread \in DOMAIN threads
    /\ threads[gui.video_thread].pc = "done"
    /\ threads[gui.video_thread].cap = "failed"

(* C27, as claimed: if the camera fails to open, the failure is surfaced   *)
(* to the caller and capture ends in the stopped state (is_camera_active   *)
(* is false and no capture loop runs); if a frame read fails, no           *)
(* automatic unbounded retry loop is entered: a failed read leaves the     *)
(* loop or changes something the loop counts its retries with.             *)
C27_CaptureFailureStopsCapture ==
    /\ []((OpenFailed /\ GuiIdle)
            => ~gui.is_camera_active /\ Capturing = {})
    /\ [][ \A i \in 1..MaxThreads :
             ReadFails(i)
               => <<monitor, gui, threads, timers>>'
                     # <<monitor, gui, threads, timers>> ]_vars

(* C27: time has passed since the camera failed to open, and the window    *)
(* still shows it as active.                                               *)
C27_OpenFailedStillActive ==
    /\ OpenFailed /\ GuiIdle
    /\ gui.is_camera_active /\ gui.eye_exercise_button_enabled
    /\ Capturing = {}
    /\ now > session_start

(* C27: the loop of run() has read without a frame as often as counted.    *)
C27_ReadRetried ==
    /\ hist.failed_reads = MaxFailedReads
    /\ \E i \in DOMAIN threads : threads[i].pc = "l28" /\ threads[i].running

(* After a failed open nothing but the stop_camera that the user's click   *)
(* on the camera button calls clears is_camera_active.                     *)
OpenFailureNeverSurfaced ==
    [][ (OpenFailed /\ gui.is_camera_active /\ ~gui'.is_camera_active)
          => StopReturn /\ gui.caller = "toggle_camera" ]_vars

----------------------------------------------------------------------------
(* A tick in which the extraction of one metric fails.                     *)

(* The metric extractors of a tick: detect_gaze_direction, check_proximity, *)
(* eye_aspect_ratio, check_blink_rate, analyze_posture.                    *)
Metrics == {"gaze", "proximity", "ear", "blink_rate", "posture"}

(* No extractor fails, or one does. *)
Failing == {{}} \cup { {x} : x \in Metrics }

(* What the extractors that catch their own exception return: 'center'     *)
(* (line 200-202), False (491-493, 505-507), None (420-422).               *)
NeutralFace(f, fl) ==
    [f EXCEPT !.gaze = IF "gaze" \in fl THEN "center" ELSE @,
              !.proximity = IF "proximity" \in fl THEN FALSE ELSE @,
              !.low_blink = IF "blink_rate" \in fl THEN FALSE ELSE @]

NeutralPose(p, fl) == IF "posture" \in fl THEN NoPose ELSE p

(* process_frame, lines 531-581, with the extractors in fl failing.        *)
(* eye_aspect_ratio (362-381) has no try of its own: its exception is      *)
(* caught at line 579, after the proximity check and before the blink      *)
(* rate check and the auto-mode trigger.                                   *)
FaceBlockFailing(m, f, fl, t) ==
    IF ~f.face THEN m
    ELSE
    LET g  == NeutralFace(f, fl)
        m1 == [m EXCEPT !.last_detection = g.gaze]
        m2 == IF m1.eye_exercise_active
              THEN update_eye_exercise(m1, t, g.gaze) ELSE m1
        m3 == IF g.proximity /\ should_notify(m2, t, "proximity")
                 /\ ~m2.eye_exercise_active
              THEN send_notification(m2, t, "Move Back Slightly", "proximity")
              ELSE m2
        m4 == IF g.low_blink /\ should_notify(m3, t, "blink_rate")
                 /\ ~m3.eye_exercise_active
              THEN send_notification(m3, t, "Rest Your Eyes", "blink_rate")
              ELSE m3
    IN  IF "ear" \in fl THEN m3
        ELSE AutoTrigger(m4, t,
                 g.proximity \/ g.low_blink \/ check_screen_time(m4, t))

(* HealthMonitor.process_frame with the extractors in fl failing *)
process_frame_failing(m, f, p, hot, fl, t0, t1, t2) ==
    SystemHealthBlock(
        ScreenTimeBlock(
            PoseBlock(FaceBlockFailing(AutoModePoll(m, t0), f, fl, t1),
                      NeutralPose(p, fl), t2),
            t2),
        hot, t2)

(* SpecMetrics: SpecFrame with frames whose extraction may fail, each      *)
(* frame processed within one clock step.                                  *)

MetricFrames ==
    { <<Quiet("right"), NoPose, FALSE>>,
      <<Issue(TRUE, FALSE), NoPose, FALSE>>,
      <<Issue(FALSE, TRUE), NoPose, FALSE>>,
      <<Quiet("center"), Pose(TRUE, TRUE), FALSE>> }

MetricsFrame(f, p, hot, fl, d1, d2) ==
    /\ now + d1 + d2 <= session_start + FrameMaxTime
    /\ monitor' = process_frame_failing(monitor, f, p, hot, fl,
                                        now, now + d1, now + d1 + d2)
    /\ Len(monitor'.session_data.alerts) <= MaxFrameAlerts
    /\ now' = now + d1 + d2
    /\ hist' = [hist EXCEPT !.op = "process_frame",
                            !.edge = IF fl = {} THEN "none"
                                     ELSE CHOOSE x \in fl : TRUE]
    /\ UNCHANGED <<gui, threads, timers>>

NextMetrics ==
    \/ AdvanceFrame
    \/ \E b \in BOOLEAN : SetAutoMode(b)
    \/ UserStartExercise
    \/ \E fr \in MetricFrames, fl \in Failing :
          MetricsFrame(fr[1], fr[2], fr[3], fl, 0, 0)

SpecMetrics == InitCore /\ [][NextMetrics]_vars

(* C28, as claimed: a failure while extracting one metric in a tick        *)
(* (gaze, proximity, eye aspect ratio / blink, posture) yields that        *)
(* metric's neutral default and prevents no other metric of the tick, nor  *)
(* the auto-mode trigger decision, from being evaluated: the tick leaves   *)
(* what a tick leaves whose extractor returned the default.                *)
C28_MetricFailureIsNeutral ==
    \A fr \in MetricFrames, fl \in Failing, d \in Drifts :
        process_frame_failing(monitor, fr[1], fr[2], fr[3], fl,
                              now, now + d[1], now + d[1] + d[2])
          = process_frame(monitor, NeutralFace(fr[1], fl),
                          NeutralPose(fr[2], fl), fr[3],
                          now, now + d[1], now + d[1] + d[2])

(* C28: ticks have run, one with a failing eye_aspect_ratio; the blink     *)
(* rate is low and its cooldown over, and the tick whose eye_aspect_ratio  *)
(* fails neither raises the blink alert nor (in AUTO, the interval over)   *)
(* starts the exercise.                                                    *)
C28_EarFailureSkipsBlinkCheck ==
    /\ hist.op = "process_frame" /\ hist.edge = "ear"
    /\ ~monitor.eye_exercise_active
    /\ LET fr == <<Issue(FALSE, TRUE), NoPose, FALSE>>
           a == process_frame_failing(monitor, fr[1], fr[2], fr[3], {"ear"},
                                      now, now, now)
           b == process_frame(monitor, fr[1], fr[2], fr[3], now, now, now)
       IN  /\ b.alert_stats["blink_rate"] = monitor.alert_stats["blink_rate"] + 1
           /\ a.alert_stats["blink_rate"] = monitor.alert_stats["blink_rate"]
           /\ a.session_data.alerts = monitor.session_data.alerts

----------------------------------------------------------------------------
(* C29: in every reachable state 0 <= time_left <= 15 and                  *)
(* 0 <= paused_time_left <= 15, after any sequence of start_eye_exercise   *)
(* and update_eye_exercise calls with non-decreasing timestamps.           *)
C29_TimeLeftInRange ==
    /\ 0 <= monitor.time_left /\ monitor.time_left <= PHASE_SECONDS
    /\ 0 <= monitor.paused_time_left
    /\ monitor.paused_time_left <= PHASE_SECONDS

(* C29 witness: the tick that completed the exercise came later than the   *)
(* end of the countdown, and time_left stopped at 0.                       *)
C29_Witness ==
    /\ monitor.exercise_done /\ hist.edge = "complete"
    /\ monitor.time_left = 0
    /\ now - monitor.phase_start_time > monitor.paused_time_left
    /\ monitor.paused_time_left > 0

----------------------------------------------------------------------------
(* C30: after any sequence of set_auto_mode / toggle_mode calls the        *)
(* snapshot's mode field equals the current mode: session_data['mode'] is  *)
(* 'auto' if and only if monitor.auto_mode is true, in the monitor and in  *)
(* the document save_session_data writes; and the start_time field never   *)
(* changes.                                                                *)
C30_SnapshotModeIsCurrentMode ==
    /\ [](/\ (monitor.session_data.mode = "auto") <=> monitor.auto_mode
          /\ monitor.session_data.mode \in {"auto", "manual"}
          /\ save_session_data(monitor).mode = monitor.session_data.mode
          /\ monitor.session_data.start_time = session_start)
    /\ [][ /\ monitor'.session_data.start_time
                = monitor.session_data.start_time
           /\ save_session_data(monitor').start_time
                = save_session_data(monitor).start_time ]_vars

(* C30 witness: the mode was switched to auto with the toggle, the app     *)
(* went to background and set its wake timer, and the user switched back   *)
(* to manual: the snapshot says 'manual' again.                            *)
C30_Witness ==
    /\ ~monitor.auto_mode
    /\ monitor.session_data.mode = "manual"
    /\ \E tm \in BagToSet(timers) : tm.cb = "wake_up_for_check" /\ tm.stale

(* The other direction: a session launched in manual mode whose toggle     *)
(* switched it to auto.                                                    *)
C30_ToggledToAuto ==
    /\ monitor.auto_mode /\ gui.mode_group_visible
    /\ monitor.session_data.mode = "auto"

----------------------------------------------------------------------------
(* C31: should_notify(kind) is true if and only if kind has never fired or *)
(* now - last_notification[kind] >= 30 s (true exactly at the 30 s         *)
(* boundary); last_notification entries are never removed and never        *)
(* decrease during a session.                                              *)
C31_ShouldNotifyIffCooledDown ==
    /\ [](\A k \in DOMAIN monitor.alert_stats :
            should_notify(monitor, now, k)
              <=> \/ k \notin DOMAIN monitor.last_notification
                  \/ now - monitor.last_notification[k]
                        >= NOTIFICATION_COOLDOWN)
    /\ [][\A k \in DOMAIN monitor.last_notification :
            /\ k \in DOMAIN monitor'.last_notification
            /\ monitor'.last_notification[k]
                  >= monitor.last_notification[k]]_vars

(* C31 witness: a kind fired exactly 30 s ago may fire again, while a kind *)
(* fired less than 30 s ago may not.                                       *)
C31_Witness ==
    \E k, j \in DOMAIN monitor.last_notification :
        /\ now - monitor.last_notification[k] = NOTIFICATION_COOLDOWN
        /\ should_notify(monitor, now, k)
        /\ now - monitor.last_notification[j] < NOTIFICATION_COOLDOWN
        /\ ~should_notify(monitor, now, j)

----------------------------------------------------------------------------
(* SpecSettings: the preferences file at self.settings_path, the auto-start *)
(* checkbox and the AutoStartManager.  A JSON value is written as its text: *)
(* "true", "false", "null".                                                 *)

(* What can be at settings_path: nothing, text json.load rejects, a JSON    *)
(* value that is not an object (a list, a number, null), or an object with  *)
(* some of two keys.                                                        *)
SettingsFiles ==
    { [kind |-> k, dict |-> << >>] :
        k \in {"missing", "unparseable", "nonobject"} }
    \cup { [kind |-> "object", dict |-> d] :
             d \in UNION { [S -> {"true", "false", "null"}] :
                             S \in SUBSET {"auto_start_enabled", "theme"} } }

(* The try block both methods open with: data is {} unless the file exists  *)
(* and json.load returns something.                                         *)
ReadSettingsFile(file) ==
    IF file.kind \in {"missing", "unparseable"}
    THEN [kind |-> "object", dict |-> << >>]
    ELSE file

(* SafeWarnerGUI.save_settings: returns the file and whether it raised.     *)
(* wr is what open(path, 'w') and json.dump do: both work, open fails and   *)
(* the file stays, or the write fails after open has truncated the file.    *)
save_settings(file, enabled, wr) ==
    LET data == ReadSettingsFile(file)
    IN  IF data.kind = "nonobject"
        THEN [file |-> file, raised |-> TRUE]      \* data.update: AttributeError
        ELSE LET upd == Put(data.dict, "auto_start_enabled",
                            IF enabled THEN "true" ELSE "false")
             IN  [file   |-> CASE wr = "ok" -> [kind |-> "object", dict |-> upd]
                               [] wr = "open_fails" -> file
                               [] wr = "dump_fails" ->
                                      [kind |-> "unparseable", dict |-> << >>],
                  raised |-> FALSE]

(* AutoStartManager.set_auto_start catches every exception: on failure the  *)
(* system keeps its registration.                                           *)
set_auto_start(g, enabled, os_ok) ==
    IF os_ok THEN [g EXCEPT !.auto_start_manager = enabled] ELSE g

(* SafeWarnerGUI.on_auto_start_changed, the slot of the checkbox, which has *)
(* already taken the state `enabled`.  When save_settings raises, the       *)
(* checkbox is put back to is_auto_start_enabled(); the slot that fires     *)
(* again for that change fails the same way and changes nothing more.       *)
on_auto_start_changed(g, enabled, os_ok, wr) ==
    LET g1 == set_auto_start([g EXCEPT !.auto_start_checkbox = enabled],
                             enabled, os_ok)
        r  == save_settings(g1.settings_file, enabled, wr)
    IN  IF r.raised
        THEN [g1 EXCEPT !.auto_start_checkbox = g1.auto_start_manager,
                        !.error_shown = TRUE]
        ELSE [g1 EXCEPT !.settings_file = r.file]

(* SafeWarnerGUI.load_settings, with the slot setChecked fires when the     *)
(* checkbox changes state.                                                  *)
load_settings(g, os_ok, wr) ==
    LET data == ReadSettingsFile(g.settings_file)
    IN  IF data.kind = "nonobject"
        THEN [g EXCEPT !.raised = TRUE]            \* data.get: AttributeError
        ELSE LET v == Get(data.dict, "auto_start_enabled", "null")
                 \* None becomes False; then bool(auto_start_enabled)
                 auto_start_enabled == v \notin {"null", "false"}
             IN  IF auto_start_enabled # g.auto_start_checkbox
                 THEN on_auto_start_changed(g, auto_start_enabled, os_ok, wr)
                 ELSE g

(* SafeWarnerGUI.__init__ up to load_settings: a new window over the file   *)
(* and the registration the system has.                                     *)
SettingsWindow(file, registered) ==
    [ auto_start_checkbox |-> FALSE,
      auto_start_manager  |-> registered,
      settings_file       |-> file,
      error_shown         |-> FALSE,
      raised              |-> FALSE ]

InitSettings ==
    /\ now = session_start
    /\ monitor = HealthMonitorInit(FALSE)
    /\ \E f \in SettingsFiles, r \in BOOLEAN : gui = SettingsWindow(f, r)
    /\ threads = << >>
    /\ timers = EmptyBag
    /\ hist = HistInit

(* The application is launched: the constructor runs load_settings.        *)
LaunchSettings(os_ok, wr) ==
    /\ gui' = load_settings(SettingsWindow(gui.settings_file,
                                           gui.auto_start_manager), os_ok, wr)
    /\ hist' = [hist EXCEPT !.op = "load_settings", !.edge = wr]
    /\ UNCHANGED <<now, monitor, threads, timers>>

(* The user clicks the checkbox of a window that was constructed.           *)
ClickAutoStart(os_ok, wr) ==
    /\ ~gui.raised
    /\ gui' = on_auto_start_changed([gui EXCEPT !.error_shown = FALSE],
                                     ~gui.auto_start_checkbox, os_ok, wr)
    /\ hist' = [hist EXCEPT !.op = "on_auto_start_changed", !.edge = wr]
    /\ UNCHANGED <<now, monitor, threads, timers>>

(* Something else than the application rewrites or removes the file.       *)
FileChanges(f) ==
    /\ f # gui.settings_file
    /\ gui' = [gui EXCEPT !.settings_file = f]
    /\ hist' = [hist EXCEPT !.op = "file_changes", !.edge = "none"]
    /\ UNCHANGED <<now, monitor, threads, timers>>

NextSettings ==
    \/ \E os_ok \in BOOLEAN, wr \in {"ok", "open_fails", "dump_fails"} : LaunchSettings(os_ok, wr)
    \/ \E os_ok \in BOOLEAN, wr \in {"ok", "open_fails", "dump_fails"} : ClickAutoStart(os_ok, wr)
    \/ \E f \in SettingsFiles : FileChanges(f)

SpecSettings == InitSettings /\ [][NextSettings]_vars

(* What the next launch would show in the checkbox, given the file and the  *)
(* registration a step leaves behind.                                       *)
NextLoadYields(g, v) ==
    \A o \in BOOLEAN, w \in {"ok", "open_fails", "dump_fails"} :
        LET g1 == load_settings(SettingsWindow(g.settings_file,
                                               g.auto_start_manager), o, w)
        IN  ~g1.raised /\ g1.auto_start_checkbox = v

(* The keys of the file other than auto_start_enabled keep their values.   *)
OtherKeysPreserved(f0, f1) ==
    \A k \in DOMAIN f0.dict \ {"auto_start_enabled"} :
        k \in DOMAIN f1.dict /\ f1.dict[k] = f0.dict[k]

(* The claim's cases over the files in Corrupt, the file contents counted   *)
(* as corrupt besides a missing file.                                       *)
SettingsContract(Corrupt) ==
    /\ (hist'.op = "load_settings"
        /\ gui.settings_file.kind \in {"missing"} \cup Corrupt)
      => ~gui'.raised /\ ~gui'.auto_start_checkbox
    /\ (hist'.op = "on_auto_start_changed"
        /\ gui.settings_file.kind \in {"missing", "object"} \cup Corrupt)
      => LET v == ~gui.auto_start_checkbox
         IN  /\ ~gui'.raised /\ ~gui'.error_shown
             /\ gui'.auto_start_checkbox = v
             /\ hist'.edge = "ok"
                  => /\ NextLoadYields(gui', v)
                     /\ OtherKeysPreserved(gui.settings_file,
                                           gui'.settings_file)

(* C32: preferences round-trip and default.  Loading when the settings     *)
(* file is missing or corrupt yields auto_start_enabled = false; after     *)
(* save_settings({'auto_start_enabled': v}) a subsequent load yields v,    *)
(* other keys already in the file are preserved, and a write failure       *)
(* leaves the in-memory state usable without raising.                      *)
C32_SettingsRoundTripAndDefault ==
    [][SettingsContract({"unparseable", "nonobject"})]_vars

(* C32 divergence: the file holds JSON that is not an object, and the      *)
(* launch ended with the exception load_settings raised.                   *)
C32_LoadRaised ==
    /\ hist.op = "load_settings"
    /\ gui.settings_file.kind = "nonobject"
    /\ gui.raised

(* With text json.load rejects as the only corrupt content, every part of  *)
(* the contract holds.                                                     *)
UnparseableSettingsContract ==
    [][SettingsContract({"unparseable"})]_vars

(* A round trip happened: a click saved TRUE into a file that had another  *)
(* key, and the file now holds both.                                       *)
SettingsSavedAndKept ==
    /\ hist.op = "on_auto_start_changed" /\ hist.edge = "ok"
    /\ gui.auto_start_checkbox
    /\ gui.settings_file.kind = "object"
    /\ DOMAIN gui.settings_file.dict = {"auto_start_enabled", "theme"}
    /\ gui.settings_file.dict["auto_start_enabled"] = "true"

----------------------------------------------------------------------------
(* The number of ledger records of one type, and the sum of the counters.  *)
RecordsOfType(m, k) ==
    Cardinality({ i \in 1..Len(m.session_data.alerts) :
                    m.session_data.alerts[i].type = k })

StatsTotal(st) ==
    LET S[K \in SUBSET DOMAIN st] ==
            IF K = {} THEN 0
            ELSE LET k == CHOOSE x \in K : TRUE IN st[k] + S[K \ {k}]
    IN  S[DOMAIN st]

(* C33: in every reachable state, for each alert kind k, alert_stats[k]    *)
(* equals the number of records of type k in session_data['alerts'], so    *)
(* the sum of all counters equals the length of the alert ledger.          *)
C33_CountersMatchLedger ==
    /\ \A k \in DOMAIN monitor.alert_stats :
          monitor.alert_stats[k] = RecordsOfType(monitor, k)
    /\ \A i \in 1..Len(monitor.session_data.alerts) :
          monitor.session_data.alerts[i].type \in DOMAIN monitor.alert_stats
    /\ StatsTotal(monitor.alert_stats) = Len(monitor.session_data.alerts)

(* C33 witness: one kind was recorded twice and another kind once, and a   *)
(* notification of the first kind is being held back by the cooldown.      *)
C33_Witness ==
    \E k, j \in DOMAIN monitor.alert_stats :
        /\ k # j
        /\ monitor.alert_stats[k] = 2 /\ RecordsOfType(monitor, k) = 2
        /\ monitor.alert_stats[j] = 1 /\ RecordsOfType(monitor, j) = 1
        /\ ~should_notify(monitor, now, k)

----------------------------------------------------------------------------
(* SpecRace: HealthMonitor.start_eye_exercise on the GUI thread and        *)
(* HealthMonitor.update_eye_exercise("left") on the video thread, statement *)
(* by statement.  Nothing locks the monitor: the two threads take turns    *)
(* between any two statements.  gui.pc and threads[1].pc are the line each *)
(* thread executes next; threads[1] also holds the locals of the tick.     *)

(* The ticks that bring a started exercise into its LEFT phase with the    *)
(* countdown running; `paused` adds a pause and a resume on the way.       *)
RaceMonitor(auto, paused) ==
    LET t0 == session_start
        m0 == start_eye_exercise(HealthMonitorInit(auto), t0)
        m1 == update_eye_exercise(m0, t0, "right")
        m2 == update_eye_exercise(m1, t0 + PHASE_SECONDS, "right")
        m3 == update_eye_exercise(m2, t0 + PHASE_SECONDS, "left")
        m4 == update_eye_exercise(m3, t0 + PHASE_SECONDS + TimeUnit, "left")
        m5 == update_eye_exercise(m4, t0 + PHASE_SECONDS + TimeUnit, "center")
        m6 == update_eye_exercise(m5, t0 + PHASE_SECONDS + 2 * TimeUnit, "left")
    IN  IF paused THEN m6 ELSE m3

InitRace ==
    /\ \E auto \in BOOLEAN, paused \in BOOLEAN, late \in {0, TimeUnit} :
          /\ monitor = RaceMonitor(auto, paused)
          /\ now = monitor.phase_start_time + monitor.paused_time_left + late
    /\ gui = [pc |-> "l206"]
    /\ threads = <<[pc |-> "l229", current_time |-> 0, elapsed |-> 0,
                    total_duration |-> 0]>>
    /\ timers = EmptyBag
    /\ hist = HistInit

(* One statement of start_eye_exercise (lines 206-213, then the            *)
(* notification at 221) on the GUI thread.                                 *)
StartStatement ==
    LET pc == gui.pc
    IN  /\ pc # "done"
        /\ monitor' =
             CASE pc = "l206" -> [monitor EXCEPT !.eye_exercise_active = TRUE]
               [] pc = "l207" -> [monitor EXCEPT !.eye_exercise_start_time = now]
               [] pc = "l208" -> [monitor EXCEPT !.time_left = PHASE_SECONDS]
               [] pc = "l209" -> [monitor EXCEPT !.exercise_done = FALSE]
               [] pc = "l210" -> [monitor EXCEPT !.current_phase = "right"]
               [] pc = "l211" -> [monitor EXCEPT !.countdown_active = FALSE]
               [] pc = "l212" -> [monitor EXCEPT !.phase_start_time = now]
               [] pc = "l213" -> [monitor EXCEPT !.paused_time_left = PHASE_SECONDS]
               [] pc = "l221" -> send_notification(monitor, now,
                                     "Eye Exercise Time!", "eye_exercise")
        /\ gui' = [gui EXCEPT !.pc =
             CASE pc = "l206" -> "l207" [] pc = "l207" -> "l208"
               [] pc = "l208" -> "l209" [] pc = "l209" -> "l210"
               [] pc = "l210" -> "l211" [] pc = "l211" -> "l212"
               [] pc = "l212" -> "l213" [] pc = "l213" -> "l221"
               [] pc = "l221" -> "done"]
        /\ UNCHANGED <<now, threads, timers, hist>>

(* One statement of update_eye_exercise("left") on the video thread.  The  *)
(* guard at 229 reads two attributes, one after the other.  A tick that    *)
(* finds current_phase == "right" at 235 is not completing the LEFT phase: *)
(* its branch is taken in one step.                                        *)
UpdateStatement ==
    LET th == threads[1]
        pc == th.pc
        goto(l) == [threads EXCEPT ![1].pc = l]
    IN  /\ pc # "done"
        /\ CASE pc = "l229" ->
                  /\ threads' = goto(IF ~monitor.eye_exercise_active
                                     THEN "done" ELSE "l229b")
                  /\ UNCHANGED monitor
             [] pc = "l229b" ->
                  /\ threads' = goto(IF monitor.exercise_done
                                     THEN "done" ELSE "l232")
                  /\ UNCHANGED monitor
             [] pc = "l232" ->
                  /\ threads' = [threads EXCEPT ![1].pc = "l235",
                                                ![1].current_time = now]
                  /\ UNCHANGED monitor
             [] pc = "l235" ->
                  IF monitor.current_phase = "right"
                  THEN /\ monitor' = UpdateRightPhase(monitor, th.current_time,
                                                      "left")
                       /\ threads' = goto("done")
                  ELSE /\ threads' = goto("l286")
                       /\ UNCHANGED monitor
             [] pc = "l286" ->
                  /\ threads' = goto(IF monitor.current_phase = "left"
                                     THEN "l288" ELSE "done")
                  /\ UNCHANGED monitor
             [] pc = "l288" ->
                  /\ threads' = goto(IF ~monitor.countdown_active
                                     THEN "l290" ELSE "l296")
                  /\ UNCHANGED monitor
             [] pc = "l290" ->
                  /\ monitor' = [monitor EXCEPT !.countdown_active = TRUE]
                  /\ threads' = goto("l291")
             [] pc = "l291" ->
                  /\ monitor' = [monitor EXCEPT
                                    !.phase_start_time = th.current_time]
                  /\ threads' = goto("l292")
             [] pc = "l292" ->
                  /\ monitor' = [monitor EXCEPT
                                    !.time_left = monitor.paused_time_left]
                  /\ threads' = goto("l296")
             [] pc = "l296" ->
                  /\ threads' = [threads EXCEPT
                        ![1].pc = "l297",
                        ![1].elapsed = th.current_time
                                         - monitor.phase_start_time]
                  /\ UNCHANGED monitor
             [] pc = "l297" ->
                  /\ monitor' = [monitor EXCEPT !.time_left =
                        Max(0, monitor.paused_time_left - th.elapsed)]
                  /\ threads' = goto("l300")
             [] pc = "l300" ->
                  /\ threads' = goto(IF monitor.time_left <= 0
                                     THEN "l302" ELSE "done")
                  /\ UNCHANGED monitor
             [] pc = "l302" ->
                  /\ monitor' = [monitor EXCEPT !.eye_exercise_active = FALSE]
                  /\ threads' = goto("l303")
             [] pc = "l303" ->
                  /\ monitor' = [monitor EXCEPT !.exercise_done = TRUE]
                  /\ threads' = goto("l304")
             [] pc = "l304" ->
                  /\ threads' = [threads EXCEPT
                        ![1].pc = "l310",
                        ![1].total_duration = th.current_time
                                         - monitor.eye_exercise_start_time]
                  /\ UNCHANGED monitor
             [] pc = "l310" ->
                  /\ monitor' = send_notification(monitor, now,
                                     "Exercise Complete!", "eye_exercise")
                  /\ threads' = goto("l317")
             [] pc = "l317" ->
                  /\ monitor' = [monitor EXCEPT !.session_data.eye_exercises =
                                    Append(@, [duration |-> th.total_duration,
                                               success  |-> TRUE])]
                  /\ threads' = goto("l324")
             [] pc = "l324" ->
                  /\ monitor' = IF monitor.auto_mode
                                THEN [monitor EXCEPT
                                         !.auto_mode_last_check = now]
                                ELSE monitor
                  /\ threads' = goto("done")
        /\ UNCHANGED <<now, gui, timers, hist>>

NextRace == StartStatement \/ UpdateStatement

SpecRace == InitRace /\ [][NextRace]_vars

BothFinished == gui.pc = "done" /\ threads[1].pc = "done"

(* C34: under every interleaving of a GUI-thread start_eye_exercise() with *)
(* a video-thread update_eye_exercise() that is completing the LEFT phase, *)
(* once both operations have finished the state never has                  *)
(* eye_exercise_active = true together with exercise_done = true.          *)
C34_RestartRaceLeavesNoStuckExercise ==
    BothFinished => ~(monitor.eye_exercise_active /\ monitor.exercise_done)

(* C34 divergence: both calls have returned, the exercise is shown as      *)
(* active, and every later tick returns at the guard.                      *)
C34_StuckExercise ==
    /\ BothFinished
    /\ monitor.eye_exercise_active /\ monitor.exercise_done
    /\ \A d \in {"left", "right", "center"}, t \in now..(now + MaxTime) :
          update_eye_exercise(monitor, t, d) = monitor

(* Run one after the other, the statements of each thread do what the      *)
(* method does in one step, and no order of the two whole calls leaves the *)
(* stuck state.                                                            *)
SerialRunsMatchTheMethods ==
    /\ (gui.pc = "done" /\ threads[1].pc = "l229")
          => \E auto \in BOOLEAN, paused \in BOOLEAN :
                monitor = start_eye_exercise(RaceMonitor(auto, paused), now)
    /\ (gui.pc = "l206" /\ threads[1].pc = "done")
          => \E auto \in BOOLEAN, paused \in BOOLEAN :
                monitor = update_eye_exercise(RaceMonitor(auto, paused),
                                              now, "left")
    /\ \A auto \in BOOLEAN, paused \in BOOLEAN :
          LET m0 == RaceMonitor(auto, paused)
              a == update_eye_exercise(start_eye_exercise(m0, now), now, "left")
              b == start_eye_exercise(update_eye_exercise(m0, now, "left"), now)
          IN  /\ ~(a.eye_exercise_active /\ a.exercise_done)
              /\ ~(b.eye_exercise_active /\ b.exercise_done)

----------------------------------------------------------------------------
(* The wake timers that are pending: QTimer.singleShot calls of            *)
(* schedule_next_check that have not fired yet.                            *)
PendingWakeTimers ==
    LET S == { tm \in BagToSet(timers) : tm.cb = "wake_up_for_check" }
        Sum[P \in SUBSET S] ==
            IF P = {} THEN 0
            ELSE LET y == CHOOSE x \in P : TRUE
                 IN  CopiesIn(y, timers) + Sum[P \ {y}]
    IN  Sum[S]

(* C35: at most one wake timer is pending at any time, after any sequence  *)
(* of background entries, show_normal, start/stop camera, mode toggles and *)
(* exercise completions.                                                   *)
C35_AtMostOneWakeTimer == PendingWakeTimers <= 1

(* C35 divergence: two wake timers are pending, none of them set while     *)
(* auto mode was off, and the window is in background mode.                *)
C35_TwoWakeTimers ==
    /\ PendingWakeTimers >= 2
    /\ gui.background_mode /\ gui.auto_mode_active
    /\ \A tm \in BagToSet(timers) : ~tm.stale

----------------------------------------------------------------------------
(* C36: between GUI events, background_mode = true implies the camera is   *)
(* inactive (is_camera_active = false and no VideoThread is held), and     *)
(* background_mode = true implies auto_mode_active = true.                 *)
C36_BackgroundMeansCameraOffAndAuto ==
    (GuiIdle /\ gui.background_mode)
        => /\ ~gui.is_camera_active
           /\ gui.video_thread = 0
           /\ gui.auto_mode_active

(* C36 witness: a capture loop processed a frame and raised an alert, then *)
(* the application went to background: the entry has returned, the window  *)
(* is hidden, the camera is off and the wake timer is pending.             *)
C36_Witness ==
    /\ GuiIdle /\ gui.background_mode /\ gui.hidden
    /\ ~gui.is_camera_active /\ gui.auto_mode_active
    /\ Len(monitor.session_data.alerts) >= 1
    /\ \E tm \in BagToSet(timers) : tm.cb = "wake_up_for_check" /\ ~tm.stale

----------------------------------------------------------------------------
----------------------------------------------------------------------------
(* SpecGap: the caller of SpecExercise, and frames in which the face mesh  *)
(* finds no face.  Such a frame breaks the chain of consecutive matching   *)
(* ticks the history adds up in cum_right, which is then the time the gaze *)
(* was seen to match in the RIGHT phase.                                   *)

NoFaceFrame ==
    /\ monitor' = process_frame(monitor, NoFace, NoPose, FALSE, now, now, now)
    /\ Len(monitor'.session_data.alerts) <= MaxAlerts
    /\ hist' = [hist EXCEPT !.op = "process_frame", !.edge = "no_face",
                            !.prev_d = "none", !.prev_t = 0]
    /\ UNCHANGED <<now, gui, threads, timers>>

NextGap ==
    \/ NextExercise
    \/ NoFaceFrame

SpecGap == InitCore /\ [][NextGap]_vars

(* The attributes of the exercise machine. *)
ExerciseState(m) ==
    << m.eye_exercise_active, m.exercise_done, m.current_phase,
       m.countdown_active, m.time_left, m.paused_time_left,
       m.phase_start_time, m.eye_exercise_start_time >>

(* C38: while a countdown is running, frames in which no face is detected  *)
(* (or a stopped camera) deliver no tick to the exercise machine and       *)
(* therefore never pause the countdown; the wall-clock time of such a gap  *)
(* is counted as gaze-hold time at the next matching tick: that tick       *)
(* completes the phase exactly when the time since the countdown started   *)
(* has reached the time that was left, whatever was seen in between.       *)
C38_NoFaceGapCountsAsGazeHold ==
    /\ []((monitor.eye_exercise_active /\ monitor.countdown_active)
            => \A p \in {NoPose, Pose(TRUE, TRUE)}, hot \in BOOLEAN :
                  ExerciseState(process_frame(monitor, NoFace, p, hot,
                                              now, now, now))
                    = ExerciseState(monitor))
    /\ [][ (now' = now /\ hist'.op = "process_frame")
             => ExerciseState(monitor') = ExerciseState(monitor) ]_vars
    /\ [][ (now' = now /\ hist'.op = "update_eye_exercise"
            /\ monitor.countdown_active
            /\ hist'.edge \in {"count", "complete"})
             => LET since == now - monitor.phase_start_time
                IN  /\ hist'.edge = "complete"
                         <=> since >= monitor.paused_time_left
                    /\ hist'.edge = "count"
                         => monitor'.time_left
                              = monitor.paused_time_left - since ]_vars

(* C38 witness: the RIGHT phase has just completed although the gaze was   *)
(* seen to the right for less than 15 s: a frame without a face came       *)
(* between the matching ticks.                                             *)
C38_Witness ==
    /\ hist.op = "update_eye_exercise" /\ hist.edge = "complete"
    /\ monitor.eye_exercise_active /\ monitor.current_phase = "left"
    /\ hist.cum_right < PHASE_SECONDS

----------------------------------------------------------------------------
(* C39: last_break_time is modified only at the moment an exercise is      *)
(* auto-started by process_frame in AUTO mode; a user-started exercise, an *)
(* exercise completion (any tick of the exercise), a mode change and every *)
(* notification leave it unchanged; so in MANUAL mode, once                *)
(* screen_time_alert is true it stays true for the rest of the session.    *)
C39_LastBreakTimeOnlyOnAutoStart ==
    /\ [][ monitor'.last_break_time # monitor.last_break_time
             => /\ monitor.auto_mode
                /\ ~monitor.eye_exercise_active
                /\ monitor'.eye_exercise_active
                /\ monitor'.eye_exercise_start_time >= now
                /\ monitor'.last_break_time >= now
                /\ monitor'.last_break_time <= now' ]_vars
    /\ [](LET same(m) == m.last_break_time = monitor.last_break_time
          IN  /\ same(start_eye_exercise(monitor, now))
              /\ \A b \in BOOLEAN : same(set_auto_mode(monitor, b))
              /\ \A d \in Gazes, t \in {now, now + FrameStep} :
                    same(update_eye_exercise(monitor, t, d))
              /\ \A k \in DOMAIN monitor.alert_stats :
                    same(send_notification(monitor, now, "title", k))
              /\ ~monitor.auto_mode
                   => \A fr \in Frames :
                         same(process_frame(monitor, fr[1], fr[2], fr[3],
                                            now, now, now)))
    /\ [][ (~monitor.auto_mode /\ ~monitor'.auto_mode
            /\ check_screen_time(monitor, now))
             => check_screen_time(monitor', now') ]_vars

(* C39 witness: in MANUAL mode the break notification went out, then the   *)
(* user started an exercise and its countdown is running; the mode was     *)
(* never AUTO long enough to start one: last_break_time is still the start *)
(* of the session and the screen-time alert is still true.                 *)
C39_Witness ==
    /\ ~monitor.auto_mode
    /\ ScreenTimeRecords(monitor) = 1
    /\ monitor.eye_exercise_active /\ monitor.countdown_active
    /\ monitor.eye_exercise_start_time > session_start + SCREEN_TIME_BREAK
    /\ monitor.last_break_time = session_start
    /\ check_screen_time(monitor, now)

----------------------------------------------------------------------------
(* Properties of the exercise log (SpecExercise) *)

StartsLogged(m) ==
    Cardinality({ i \in 1..Len(m.session_data.alerts) :
                    m.session_data.alerts[i].title = "Eye Exercise Time!" })

(* C40: every record of session_data['eye_exercises'] has success = true   *)
(* and a duration of at least two phases (30 s), whatever starts,           *)
(* restarts, pauses and ticks came before it; the record written by a tick  *)
(* measures the time since the most recent start_eye_exercise.              *)
C40_EveryLoggedExerciseIsFullLength ==
    /\ [](\A i \in 1..Len(monitor.session_data.eye_exercises) :
            /\ monitor.session_data.eye_exercises[i].success = TRUE
            /\ monitor.session_data.eye_exercises[i].duration
                 >= 2 * PHASE_SECONDS)
    /\ [][ Len(monitor'.session_data.eye_exercises)
             # Len(monitor.session_data.eye_exercises)
           => /\ monitor'.session_data.eye_exercises
                   = Append(monitor.session_data.eye_exercises,
                            [duration |-> now - monitor.eye_exercise_start_time,
                             success |-> TRUE])
              /\ monitor'.eye_exercise_start_time
                   = monitor.eye_exercise_start_time
              /\ hist'.op = "update_eye_exercise" ]_vars

(* C40 witness: an exercise restarted after its first start, completed and *)
(* logged with the 30 s that follow the restart.                           *)
C40_Witness ==
    /\ Len(monitor.session_data.eye_exercises) = 1
    /\ StartsLogged(monitor) = 2
    /\ monitor.eye_exercise_start_time > session_start
    /\ monitor.exercise_done
    /\ LastExercise.duration = 2 * PHASE_SECONDS
    /\ LastExercise.duration = now - monitor.eye_exercise_start_time

====
